---- MODULE Spec2Model ----
(***************************************************************************)
(* A model of the gameboy core: the address space (src/src/memory.rs), the *)
(* peripherals behind its I/O window (src/src/io), the register file       *)
(* (src/src/cpu/registers.rs) and the execution engine with its interrupt  *)
(* master enable state machine (src/src/cpu/mod.rs).                       *)
(*                                                                         *)
(* Rust panics (todo!, unimplemented!, an index out of bounds, an          *)
(* arithmetic overflow under overflow checks) are modelled by the variable *)
(* panicked: a panicking operation sets it and nothing runs afterwards.    *)
(***************************************************************************)
EXTENDS Integers, Sequences, FiniteSets, TLC

VARIABLES
    memory,          \* the Memory struct (memory.rs:41-53)
    cpu,             \* the Cpu struct (cpu/mod.rs:15-20)
    panicked,        \* TRUE once an operation has panicked
    overflow_checks, \* the build profile: TRUE = debug (overflow panics), FALSE = release (wraps)
    last,            \* history: the most recent operation and what it returned
    steps,           \* history: number of state-changing operations so far
    shadow,          \* history: address -> byte last written there (memory), pair -> value last set (registers),
                     \*          the processor and memory an execute call started from (engine)
    eiSeq,           \* history: position in the sequence EI; I1; I2 started with IME Unset
    sinceDI,         \* history: "NO", or from a completed DI until the next EI or RETI the IME state that DI found
    header_rom       \* the 0x150-byte image handed to header::new (cartridge/header.rs:56)

vars == <<memory, cpu, panicked, overflow_checks, last, steps, shadow, eiSeq, sinceDI, header_rom>>

(***************************************************************************)
(* Bounds of the model.                                                    *)
(***************************************************************************)
MaxWrites == 2
MaxSteps == 3

(***************************************************************************)
(* Machine integers.                                                       *)
(***************************************************************************)
RECURSIVE BitAnd(_, _)
BitAnd(x, y) ==
    IF x = 0 \/ y = 0 THEN 0
    ELSE (x % 2) * (y % 2) + 2 * BitAnd(x \div 2, y \div 2)

RECURSIVE BitOr(_, _)
BitOr(x, y) ==
    IF x = 0 THEN y
    ELSE IF y = 0 THEN x
    ELSE (IF x % 2 = 1 \/ y % 2 = 1 THEN 1 ELSE 0) + 2 * BitOr(x \div 2, y \div 2)

RECURSIVE BitXor(_, _)
BitXor(x, y) ==
    IF x = 0 THEN y
    ELSE IF y = 0 THEN x
    ELSE ((x + y) % 2) + 2 * BitXor(x \div 2, y \div 2)

(***************************************************************************)
(* Byte arrays.  An array [u8; N] created as [0; N] is kept as the function *)
(* from the indices holding a non-zero byte to that byte; every other      *)
(* index holds 0.                                                          *)
(***************************************************************************)
ZeroArray == [i \in {} |-> 0]

ArrayGet(arr, i) == IF i \in DOMAIN arr THEN arr[i] ELSE 0

ArrayPut(arr, i, byte) ==
    IF byte = 0
    THEN [j \in (DOMAIN arr) \ {i} |-> arr[j]]
    ELSE [j \in (DOMAIN arr) \cup {i} |-> IF j = i THEN byte ELSE arr[j]]

(***************************************************************************)
(* memory.rs: the region table.                                            *)
(***************************************************************************)
ROM_BANK_0_START == 0
ROM_BANK_N_END == 32767
VIDEO_RAM_START == 32768
VIDEO_RAM_END == 40959
EXTERNAL_RAM_START == 40960
EXTERNAL_RAM_END == 49151
WORK_RAM_START == 49152
WORK_RAM_END == 57343
ECHO_RAM_START == 57344
ECHO_RAM_END == 65023
OAM_START == 65024
OAM_END == 65183
UNUSABLE_START == 65184
UNUSABLE_END == 65279
IO_START == 65280
IO_END == 65407
HIGH_RAM_START == 65408
HIGH_RAM_END == 65534
INTERRUPT_ENABLE == 65535

(***************************************************************************)
(* io/joypad.rs and io/timers.rs: the peripherals of the I/O window.       *)
(***************************************************************************)
JoypadNew == 15

\* Mutant of JoypadGet: the stored byte is returned as it is.
JoypadGet_Raw(data) == data

JoypadGet(data) == BitOr(data, 15)

JoypadSet(data, byte) == BitAnd(byte, 240)

TimersNew ==
    [divider |-> 0, internal_divider |-> 0, timer_counter |-> 0,
     timer_modulo |-> 0, internal_timer |-> 0, timer_control |-> 0]

reset_div(t) == [t EXCEPT !.divider = 0]

set_counter(t, byte) == [t EXCEPT !.timer_counter = byte]

set_tma(t, byte) == [t EXCEPT !.timer_modulo = byte]

set_tac(t, byte) == [t EXCEPT !.timer_control = byte]

\* Timers::tick.  The loops are kept as loops; a tick returns the timers and
\* the interrupt request.  The usize accumulators cannot overflow for the
\* cycle counts of the model (they stay below their period plus one call).
timer_period(timer_control) ==
    CASE BitAnd(timer_control, 3) = 0 -> 1024
      [] BitAnd(timer_control, 3) = 1 -> 16
      [] BitAnd(timer_control, 3) = 2 -> 64
      [] BitAnd(timer_control, 3) = 3 -> 256

\* One round of the divider loop: the value of divider.wrapping_add(1) is
\* dropped, the field keeps its byte.
DividerStep(t) == [t EXCEPT !.internal_divider = @ - 256]

RECURSIVE DividerLoop(_)
DividerLoop(t) ==
    IF t.internal_divider >= 256 THEN DividerLoop(DividerStep(t)) ELSE t

\* Mutant of TimerStep: the counter is not reloaded from the modulo on a wrap.
TimerStep_NoReload(s, period) ==
    [timers |-> [s.timers EXCEPT !.timer_counter = (@ + 1) % 256,
                                 !.internal_timer = @ - period],
     interrupt |-> s.interrupt \/ s.timers.timer_counter = 255]

\* One round of the counter loop on s = [timers, interrupt].
TimerStep(s, period) ==
    LET counter == (s.timers.timer_counter + 1) % 256 IN
        [timers |-> [s.timers EXCEPT
                        !.timer_counter =
                            IF counter = 0 THEN s.timers.timer_modulo ELSE counter,
                        !.internal_timer = @ - period],
         interrupt |-> s.interrupt \/ counter = 0]

RECURSIVE TimerLoop(_, _)
TimerLoop(s, period) ==
    IF s.timers.internal_timer >= period
    THEN TimerLoop(TimerStep(s, period), period)
    ELSE s

TickDivider(t, ticks) == DividerLoop([t EXCEPT !.internal_divider = @ + ticks])

tick(t, ticks) ==
    IF BitAnd(t.timer_control, 4) = 4
    THEN TimerLoop([timers |-> [TickDivider(t, ticks) EXCEPT !.internal_timer = @ + ticks],
                    interrupt |-> FALSE],
                   timer_period(t.timer_control))
    ELSE [timers |-> TickDivider(t, ticks), interrupt |-> FALSE]

(***************************************************************************)
(* memory.rs: Memory::new, read, write, read_io, write_io.  read returns   *)
(* [ok, value] and write [ok, memory]; ok = FALSE is a panic.              *)
(***************************************************************************)
MemoryNew(rom_len, rom) ==
    [rom_len |-> rom_len, rom |-> rom,
     video_ram |-> ZeroArray, ext_ram |-> ZeroArray, work_ram |-> ZeroArray,
     oam |-> ZeroArray, high_ram |-> ZeroArray,
     joypad |-> JoypadNew, timers |-> TimersNew,
     interrupt_flag |-> 0, interrupt_enable |-> 0]

Returned(value) == [ok |-> TRUE, value |-> value]

Panic == [ok |-> FALSE, value |-> 0]

\* The arms 0xFF40..=0xFF4E and 0xFF78..=0xFF7F are missing from the match:
\* no value is defined for them, which is a failing path like todo!().
read_io(m, address) ==
    CASE address = 65280 -> Returned(JoypadGet(m.joypad))
      [] address \in 65281..65283 -> Panic
      [] address = 65284 -> Returned(m.timers.divider)
      [] address = 65285 -> Returned(m.timers.timer_counter)
      [] address = 65286 -> Returned(m.timers.timer_modulo)
      [] address = 65287 -> Returned(m.timers.timer_control)
      [] address \in 65288..65294 -> Panic
      [] address = 65295 -> Returned(m.interrupt_flag)
      [] address \in 65296..65343 -> Panic
      [] address \in 65359..65399 -> Returned(0)
      [] OTHER -> Panic

Read(m, address) ==
    CASE address \in ROM_BANK_0_START..ROM_BANK_N_END ->
            IF address < m.rom_len THEN Returned(ArrayGet(m.rom, address)) ELSE Panic
      [] address \in VIDEO_RAM_START..VIDEO_RAM_END ->
            Returned(ArrayGet(m.video_ram, address - VIDEO_RAM_START))
      [] address \in EXTERNAL_RAM_START..EXTERNAL_RAM_END ->
            Returned(ArrayGet(m.ext_ram, address - EXTERNAL_RAM_START))
      [] address \in WORK_RAM_START..WORK_RAM_END ->
            Returned(ArrayGet(m.work_ram, address - WORK_RAM_START))
      [] address \in ECHO_RAM_START..ECHO_RAM_END ->
            Returned(ArrayGet(m.work_ram, address - ECHO_RAM_START))
      [] address \in OAM_START..OAM_END ->
            Returned(ArrayGet(m.oam, address - OAM_START))
      [] address \in UNUSABLE_START..UNUSABLE_END -> Returned(0)
      [] address \in IO_START..IO_END -> read_io(m, address)
      [] address \in HIGH_RAM_START..HIGH_RAM_END ->
            Returned(ArrayGet(m.high_ram, address - HIGH_RAM_START))
      [] address = INTERRUPT_ENABLE -> Returned(m.interrupt_enable)

Written(m) == [ok |-> TRUE, memory |-> m]

WritePanic(m) == [ok |-> FALSE, memory |-> m]

write_io(m, address, byte) ==
    CASE address = 65280 -> Written([m EXCEPT !.joypad = JoypadSet(m.joypad, byte)])
      [] address \in 65281..65283 -> WritePanic(m)
      [] address = 65284 -> Written([m EXCEPT !.timers = reset_div(m.timers)])
      [] address = 65285 -> Written([m EXCEPT !.timers = set_counter(m.timers, byte)])
      [] address = 65286 -> Written([m EXCEPT !.timers = set_tma(m.timers, byte)])
      [] address = 65287 -> Written([m EXCEPT !.timers = set_tac(m.timers, byte)])
      [] address \in 65288..65294 -> WritePanic(m)
      [] address = 65295 -> Written([m EXCEPT !.interrupt_flag = byte])
      [] address \in 65296..65343 -> WritePanic(m)
      [] address \in 65359..65399 -> Written(m)
      [] OTHER -> WritePanic(m)

\* Mutant of WriteEcho: the echo range discards writes like the unusable range.
WriteEcho_Discard(m, address, byte) == Written(m)

WriteEcho(m, address, byte) ==
    Written([m EXCEPT !.work_ram = ArrayPut(m.work_ram, address - ECHO_RAM_START, byte)])

\* Mutant of WriteUnusable: the unusable range handled by the OAM arm.
WriteUnusable_IntoOam(m, address, byte) ==
    Written([m EXCEPT !.oam = ArrayPut(m.oam, address - OAM_START, byte)])

WriteUnusable(m, address, byte) == Written(m)

\* Mutant of WriteOam: the index taken from the wrong end of the region.
WriteOam_FromEnd(m, address, byte) ==
    Written([m EXCEPT !.oam = ArrayPut(m.oam, OAM_END - address, byte)])

WriteOam(m, address, byte) ==
    Written([m EXCEPT !.oam = ArrayPut(m.oam, address - OAM_START, byte)])

Write(m, address, byte) ==
    CASE address \in ROM_BANK_0_START..ROM_BANK_N_END ->
            IF address < m.rom_len
            THEN Written([m EXCEPT !.rom = ArrayPut(m.rom, address, byte)])
            ELSE WritePanic(m)
      [] address \in VIDEO_RAM_START..VIDEO_RAM_END ->
            Written([m EXCEPT !.video_ram = ArrayPut(m.video_ram, address - VIDEO_RAM_START, byte)])
      [] address \in EXTERNAL_RAM_START..EXTERNAL_RAM_END ->
            Written([m EXCEPT !.ext_ram = ArrayPut(m.ext_ram, address - EXTERNAL_RAM_START, byte)])
      [] address \in WORK_RAM_START..WORK_RAM_END ->
            Written([m EXCEPT !.work_ram = ArrayPut(m.work_ram, address - WORK_RAM_START, byte)])
      [] address \in ECHO_RAM_START..ECHO_RAM_END -> WriteEcho(m, address, byte)
      [] address \in OAM_START..OAM_END -> WriteOam(m, address, byte)
      [] address \in UNUSABLE_START..UNUSABLE_END -> WriteUnusable(m, address, byte)
      [] address \in IO_START..IO_END -> write_io(m, address, byte)
      [] address \in HIGH_RAM_START..HIGH_RAM_END ->
            Written([m EXCEPT !.high_ram = ArrayPut(m.high_ram, address - HIGH_RAM_START, byte)])
      [] address = INTERRUPT_ENABLE -> Written([m EXCEPT !.interrupt_enable = byte])

(***************************************************************************)
(* Power-on state of the processor (cpu/mod.rs:23-30, registers.rs:50-68). *)
(***************************************************************************)
FlagsNew == [zero |-> FALSE, subtract |-> FALSE, half_carry |-> FALSE, carry |-> FALSE]

RegistersNew ==
    [a |-> 0, b |-> 0, c |-> 0, d |-> 0, e |-> 0, f |-> FlagsNew,
     h |-> 0, l |-> 0, sp |-> 0, pc |-> 0]

CpuNew ==
    [registers |-> RegistersNew, ime_state |-> "UNSET",
     low_power_mode |-> FALSE, very_low_power_mode |-> FALSE]

(***************************************************************************)
(* The address space on its own: Memory::new on a ROM vector, then any     *)
(* interleaving of write and read calls.                                   *)
(***************************************************************************)
\* ROM vectors: the empty one main.rs passes, and a full 32 KiB image of zeros.
RomLengths == {0, 32768}

\* Addresses written: both ends of the regions and each kind of I/O register.
WriteAddrs ==
    {0, 32768, 49151, 49152, 56831, 57343, 57344, 65023, 65183, 65184,
     65279, 65280, 65281, 65295, 65534, 65535}

\* Addresses read: the written ones and the remaining kinds of I/O register.
ReadAddrs == WriteAddrs \cup {65284, 65344, 65359}

ByteSamples == {90, 255}

NoOp == [op |-> "new", addr |-> 0, byte |-> 0, ok |-> TRUE, value |-> 0]

InitMem ==
    /\ \E n \in RomLengths : memory = MemoryNew(n, ZeroArray)
    /\ cpu = CpuNew
    /\ panicked = FALSE
    /\ overflow_checks = TRUE
    /\ last = NoOp
    /\ steps = 0
    /\ shadow = ZeroArray
    /\ eiSeq = 0
    /\ sinceDI = "NO"
    /\ header_rom = ZeroArray

EchoAlias(address) ==
    IF address \in ECHO_RAM_START..ECHO_RAM_END THEN {address - 8192}
    ELSE IF address \in WORK_RAM_START..(WORK_RAM_START + 7679) THEN {address + 8192}
    ELSE {}

ShadowPut(sh, address, byte) ==
    [a \in (DOMAIN sh) \cup {address} \cup EchoAlias(address) |->
        IF a = address \/ a \in EchoAlias(address) THEN byte ELSE sh[a]]

MemWrite(address, byte) ==
    /\ ~panicked
    /\ steps < MaxWrites
    /\ LET w == Write(memory, address, byte) IN
        /\ memory' = w.memory
        /\ panicked' = ~w.ok
        /\ last' = [op |-> "write", addr |-> address, byte |-> byte, ok |-> w.ok, value |-> 0]
        /\ steps' = steps + 1
        /\ shadow' = IF w.ok THEN ShadowPut(shadow, address, byte) ELSE shadow
    /\ UNCHANGED <<cpu, overflow_checks, eiSeq, sinceDI, header_rom>>

MemRead(address) ==
    /\ ~panicked
    /\ LET r == Read(memory, address) IN
        /\ panicked' = ~r.ok
        /\ last' = [op |-> "read", addr |-> address, byte |-> 0, ok |-> r.ok, value |-> r.value]
    /\ UNCHANGED <<memory, cpu, overflow_checks, steps, shadow, eiSeq, sinceDI, header_rom>>

NextMem ==
    \/ \E address \in WriteAddrs, byte \in ByteSamples : MemWrite(address, byte)
    \/ \E address \in ReadAddrs : MemRead(address)

SpecMem == InitMem /\ [][NextMem]_vars

(***************************************************************************)
(* Claims about the address space, checked under SpecMem.                  *)
(***************************************************************************)
WritableRam ==
    (VIDEO_RAM_START..VIDEO_RAM_END) \cup (EXTERNAL_RAM_START..EXTERNAL_RAM_END)
    \cup (WORK_RAM_START..WORK_RAM_END) \cup (OAM_START..OAM_END)
    \cup (HIGH_RAM_START..HIGH_RAM_END)

Unusable == UNUSABLE_START..UNUSABLE_END

\* C6: read returns a byte and write completes for every address of a Memory
\* built from any ROM vector: no read or write call panics.
C6_ReadWriteTotal == last.op \in {"read", "write"} => last.ok

\* C7: in Video RAM, External RAM, Work RAM, OAM and High RAM, read(a) returns
\* the byte of the latest write to a (or to a's echo alias), whatever was
\* written elsewhere in between, and a read call there returns that byte.
C7_RoundTrip ==
    /\ \A a \in (DOMAIN shadow) \cap WritableRam : Read(memory, a) = Returned(shadow[a])
    /\ (last.op = "read" /\ last.addr \in (DOMAIN shadow) \cap WritableRam)
          => (last.ok /\ last.value = shadow[last.addr])

\* C7 witness: a byte written to writable RAM is read back after a write to
\* another address.
C7_Witness ==
    /\ last.op = "read" /\ last.ok /\ last.addr \in WritableRam
    /\ last.addr \in DOMAIN shadow /\ last.value = 90
    /\ steps = 2
    /\ \E a \in DOMAIN shadow : a # last.addr /\ a \notin EchoAlias(last.addr) /\ shadow[a] = 255

\* Offsets into Work RAM that have an echo alias and are compared in each state:
\* both ends of the aliased range and every offset holding a non-zero byte.
EchoOffsets(m) == {0, 1, 4096, 7678, 7679} \cup ((DOMAIN m.work_ram) \cap (0..7679))

\* C8: read(0xE000+k) equals read(0xC000+k) in every state, a write to
\* 0xC000+k is read back at 0xE000+k and a write to 0xE000+k at 0xC000+k.
C8_EchoAlias ==
    /\ \A k \in EchoOffsets(memory) :
          Read(memory, ECHO_RAM_START + k) = Read(memory, WORK_RAM_START + k)
    /\ (last.op = "write" /\ last.ok /\ EchoAlias(last.addr) # {})
          => \A a \in EchoAlias(last.addr) \cup {last.addr} :
                Read(memory, a) = Returned(last.byte)

\* C8 witness: a non-zero byte was last written through the echo range.
C8_Witness ==
    /\ last.op = "write" /\ last.ok /\ last.byte = 90
    /\ last.addr \in ECHO_RAM_START..ECHO_RAM_END
    /\ Read(memory, last.addr - 8192) = Returned(90)

\* C9: every address of 0xFEA0-0xFEFF reads 0 in every state, and a write to
\* such an address leaves the whole Memory, every stored byte, as it was.
C9_Unusable ==
    /\ [](\A a \in Unusable : Read(memory, a) = Returned(0))
    /\ [][(last'.op = "write" /\ last'.addr \in Unusable) => memory' = memory]_vars

\* C9 witness: a non-zero byte was written to the unusable range, after a
\* write elsewhere, and the range read afterwards.
C9_Witness ==
    /\ last.op = "read" /\ last.addr \in Unusable /\ last.ok /\ last.value = 0
    /\ last.addr \in DOMAIN shadow /\ shadow[last.addr] = 255
    /\ steps = 2

(***************************************************************************)
(* cpu/registers.rs and cpu/instructions.rs: the register file.            *)
(***************************************************************************)
R8 == {"A", "B", "C", "D", "E", "H", "L"}

R16 == {"BC", "DE", "HL"}

get_upper(r16) == CASE r16 = "BC" -> "B" [] r16 = "DE" -> "D" [] r16 = "HL" -> "H"

get_lower(r16) == CASE r16 = "BC" -> "C" [] r16 = "DE" -> "E" [] r16 = "HL" -> "L"

get_r8(r, register) ==
    CASE register = "A" -> r.a
      [] register = "B" -> r.b
      [] register = "C" -> r.c
      [] register = "D" -> r.d
      [] register = "E" -> r.e
      [] register = "H" -> r.h
      [] register = "L" -> r.l

set_r8(r, register, value) ==
    CASE register = "A" -> [r EXCEPT !.a = value]
      [] register = "B" -> [r EXCEPT !.b = value]
      [] register = "C" -> [r EXCEPT !.c = value]
      [] register = "D" -> [r EXCEPT !.d = value]
      [] register = "E" -> [r EXCEPT !.e = value]
      [] register = "H" -> [r EXCEPT !.h = value]
      [] register = "L" -> [r EXCEPT !.l = value]

\* ((self.b as u16) << 8) & self.c as u16
get_bc(r) == BitAnd(r.b * 256, r.c)

set_bc(r, value) == [r EXCEPT !.b = value \div 256, !.c = BitAnd(value, 255)]

get_de(r) == BitAnd(r.d * 256, r.e)

set_de(r, value) == [r EXCEPT !.d = value \div 256, !.e = BitAnd(value, 255)]

get_hl(r) == BitAnd(r.h * 256, r.l)

set_hl(r, value) == [r EXCEPT !.h = value \div 256, !.l = BitAnd(value, 255)]

set_r16(r, register, value) ==
    CASE register = "BC" -> set_bc(r, value)
      [] register = "DE" -> set_de(r, value)
      [] register = "HL" -> set_hl(r, value)

get_r16(r, register) ==
    CASE register = "BC" -> get_bc(r)
      [] register = "DE" -> get_de(r)
      [] register = "HL" -> get_hl(r)

\* self.pc = ((upper << 4) | lower) as u16, the shift done on a u8
set_pc(r, lower, upper) == [r EXCEPT !.pc = BitOr((upper * 16) % 256, lower)]

(***************************************************************************)
(* The register file on its own: Registers::new, then any interleaving of  *)
(* set_r16, get_r16 and get_r8 calls.                                      *)
(***************************************************************************)
WordSamples == {0, 255, 4660, 32768, 65280, 65535}

NoRegOp == [op |-> "new", reg |-> "-", value |-> 0, result |-> 0]

InitReg ==
    /\ memory = MemoryNew(0, ZeroArray)
    /\ cpu = CpuNew
    /\ panicked = FALSE
    /\ overflow_checks = TRUE
    /\ last = NoRegOp
    /\ steps = 0
    /\ shadow = ZeroArray
    /\ eiSeq = 0
    /\ sinceDI = "NO"
    /\ header_rom = ZeroArray

RegSetR16(register, value) ==
    /\ cpu' = [cpu EXCEPT !.registers = set_r16(cpu.registers, register, value)]
    /\ last' = [op |-> "set_r16", reg |-> register, value |-> value, result |-> 0]
    /\ shadow' = [p \in (DOMAIN shadow) \cup {register} |->
                    IF p = register THEN value ELSE shadow[p]]
    /\ UNCHANGED <<memory, panicked, overflow_checks, steps, eiSeq, sinceDI, header_rom>>

RegGetR16(register) ==
    /\ last' = [op |-> "get_r16", reg |-> register, value |-> 0,
                result |-> get_r16(cpu.registers, register)]
    /\ UNCHANGED <<memory, cpu, panicked, overflow_checks, steps, shadow, eiSeq, sinceDI, header_rom>>

RegGetR8(register) ==
    /\ last' = [op |-> "get_r8", reg |-> register, value |-> 0,
                result |-> get_r8(cpu.registers, register)]
    /\ UNCHANGED <<memory, cpu, panicked, overflow_checks, steps, shadow, eiSeq, sinceDI, header_rom>>

NextReg ==
    \/ \E register \in R16, value \in WordSamples : RegSetR16(register, value)
    \/ \E register \in R16 : RegGetR16(register)
    \/ \E register \in R8 : RegGetR8(register)

SpecReg == InitReg /\ [][NextReg]_vars

\* C10: after set_r16(P, v), get_r16(P) returns v, the high register of P
\* holds v >> 8 and the low register holds v & 0xFF.
C10_PairRoundTrip ==
    /\ \A p \in DOMAIN shadow :
          /\ get_r16(cpu.registers, p) = shadow[p]
          /\ get_r8(cpu.registers, get_upper(p)) = shadow[p] \div 256
          /\ get_r8(cpu.registers, get_lower(p)) = shadow[p] % 256
    /\ (last.op = "get_r16" /\ last.reg \in DOMAIN shadow) => last.result = shadow[last.reg]

(***************************************************************************)
(* cpu/mod.rs: the execution engine.  A machine X is [cpu, memory, ok];    *)
(* ok = FALSE means the call has panicked.  oc is the build's overflow     *)
(* checking: with it a u16 increment past 0xFFFF or decrement below 0      *)
(* panics, without it the value wraps.                                     *)
(***************************************************************************)
Conditions == {"Z", "NZ", "C", "NC"}

\* U3::get and Vec::get: the operands u3 and vec are kept as their numbers
U3 == 0..7

Vec == {0, 8, 16, 24, 32, 40, 48, 56}

\* An Instruction: the variant and its operands, "-" or 0 for an operand the
\* variant does not have.
Instr(op) ==
    [op |-> op, condition |-> "-", n16 |-> 0, n8 |-> 0, offset |-> 0, e8 |-> 0,
     r8 |-> "-", r16 |-> "-", dest |-> "-", src |-> "-", u3 |-> 0, vec |-> 0]

Machine(c, m) == [cpu |-> c, memory |-> m, ok |-> TRUE]

Crash(X) == [X EXCEPT !.ok = FALSE]

WithRegs(X, r) == [X EXCEPT !.cpu.registers = r]

check_condition(f, condition) ==
    CASE condition = "Z" -> f.zero
      [] condition = "NZ" -> ~f.zero
      [] condition = "C" -> f.carry
      [] condition = "NC" -> ~f.carry

jump(X, n16) == [X EXCEPT !.cpu.registers.pc = n16]

\* offset is an i8; -offset overflows for -128
position_from_offset(X, offset, oc) ==
    LET position == X.cpu.registers.pc IN
    IF offset > 0 THEN [ok |-> TRUE, value |-> (position + offset) % 65536]
    ELSE IF offset = -128 /\ oc THEN [ok |-> FALSE, value |-> 0]
    ELSE IF offset = -128 THEN [ok |-> TRUE, value |-> (position - 65408) % 65536]
    ELSE [ok |-> TRUE, value |-> (position - (-offset)) % 65536]

\* memory.write(address, value), a panic of the write ending the call
Stored(X, w) == IF w.ok THEN [X EXCEPT !.memory = w.memory] ELSE Crash(X)

load_u8_into_stack(X, value) == Stored(X, Write(X.memory, X.cpu.registers.sp, value))

\* self.registers.sp -= 1; self.load_u8_into_stack(memory, value)
PushByte(X, value, oc) ==
    IF ~X.ok THEN X
    ELSE IF X.cpu.registers.sp = 0 /\ oc THEN Crash(X)
    ELSE load_u8_into_stack([X EXCEPT !.cpu.registers.sp = (@ - 1) % 65536], value)

\* self.registers.pc += 1
IncPc(X, oc) ==
    IF ~X.ok THEN X
    ELSE IF X.cpu.registers.pc = 65535 /\ oc THEN Crash(X)
    ELSE [X EXCEPT !.cpu.registers.pc = (@ + 1) % 65536]

\* memory.read(self.registers.pc)
ReadAtPc(X) == IF X.ok THEN Read(X.memory, X.cpu.registers.pc) ELSE Panic

Jumped(X, n16) == IF X.ok THEN jump(X, n16) ELSE X

\* lower = pc & 0xF and upper = (pc >> 4) as u8 are pushed, lower first
call(X, n16, oc) ==
    Jumped(PushByte(PushByte(X, BitAnd(X.cpu.registers.pc, 15), oc),
                    (X.cpu.registers.pc \div 16) % 256, oc),
           n16)

PcLoaded(X, lower, upper) ==
    IF X.ok /\ lower.ok /\ upper.ok
    THEN WithRegs(X, set_pc(X.cpu.registers, lower.value, upper.value))
    ELSE Crash(X)

\* both bytes are read at the program counter, not at the stack pointer
ret(X, oc) ==
    PcLoaded(IncPc(IncPc(X, oc), oc), ReadAtPc(X), ReadAtPc(IncPc(X, oc)))

\* Mutant of set_ime: an enable that takes effect at once.
set_ime_Immediate(X) == [X EXCEPT !.cpu.ime_state = "SET"]

\* if ime_state != PENDING_NEW_INSTRUCTION || ime_state != PENDING_INSTRUCTION_COMPLETION
set_ime(X) ==
    IF X.cpu.ime_state # "PENDING_NEW_INSTRUCTION"
       \/ X.cpu.ime_state # "PENDING_INSTRUCTION_COMPLETION"
    THEN [X EXCEPT !.cpu.ime_state = "PENDING_NEW_INSTRUCTION"]
    ELSE X

\* Mutant of ExecDI: a DI that leaves a pending enable alone.
ExecDI_KeepPending(X) ==
    IF X.cpu.ime_state = "SET" THEN [X EXCEPT !.cpu.ime_state = "UNSET"] ELSE X

ExecDI(X) == [X EXCEPT !.cpu.ime_state = "UNSET"]

\* Mutant of ExecRETI: RETI arming the enable through set_ime, like EI.
ExecRETI_LikeEI(X, oc) == ret(set_ime(X), oc)

ExecRETI(X, oc) == ret([X EXCEPT !.cpu.ime_state = "PENDING_INSTRUCTION_COMPLETION"], oc)

ExecHALT(X) ==
    IF X.cpu.ime_state = "SET" THEN [X EXCEPT !.cpu.low_power_mode = TRUE] ELSE Crash(X)

\* Mutant of ExecSTOP: STOP also clearing the master enable.
ExecSTOP_ClearIme(X) ==
    [X EXCEPT !.cpu.very_low_power_mode = TRUE, !.cpu.ime_state = "UNSET"]

ExecSTOP(X) == [X EXCEPT !.cpu.very_low_power_mode = TRUE]

ExecXOR(X, rhs) ==
    LET a == BitXor(X.cpu.registers.a, rhs) IN
    [X EXCEPT !.cpu.registers.a = a,
              !.cpu.registers.f = [zero |-> a = 0, subtract |-> FALSE,
                                   half_carry |-> FALSE, carry |-> FALSE]]

\* The operators + and - on u8 and u16: a result out of range panics under
\* overflow checks and wraps without them.
Add8(x, y, oc) ==
    IF x + y <= 255 THEN Returned(x + y)
    ELSE IF oc THEN Panic ELSE Returned(x + y - 256)

Sub8(x, y, oc) ==
    IF x >= y THEN Returned(x - y)
    ELSE IF oc THEN Panic ELSE Returned(x - y + 256)

Add16(x, y, oc) ==
    IF x + y <= 65535 THEN Returned(x + y)
    ELSE IF oc THEN Panic ELSE Returned(x + y - 65536)

Sub16(x, y, oc) ==
    IF x >= y THEN Returned(x - y)
    ELSE IF oc THEN Panic ELSE Returned(x - y + 65536)

\* u8::overflowing_add
overflowing_add(x, y) == [value |-> (x + y) % 256, overflow |-> x + y > 255]

\* rhs as i16 as u16, for an i8
SignExtend(e8) == IF e8 < 0 THEN 65536 + e8 ELSE e8

\* Y, the rest of the arm, once the read or the arithmetic r has not panicked
After(X, r, Y) == IF X.ok /\ r.ok THEN Y ELSE Crash(X)

\* memory.read(self.registers.get_hl())
ReadHl(X) == Read(X.memory, get_hl(X.cpu.registers))

\* memory.write(self.registers.get_hl(), value)
WriteHl(X, value) == Stored(X, Write(X.memory, get_hl(X.cpu.registers), value))

WithFlags(X, f) == [X EXCEPT !.cpu.registers.f = f]

\* carry says whether the instruction is an ADC; the carry flag is not read
add_a(X, rhs, carry) ==
    LET first == overflowing_add(X.cpu.registers.a, rhs)
        second == overflowing_add(first.value, 1)
        sum == IF carry THEN second.value ELSE first.value
        did_overflow == IF carry THEN first.overflow \/ second.overflow ELSE first.overflow
    IN  [X EXCEPT !.cpu.registers.a = sum,
                  !.cpu.registers.f =
                      [zero |-> sum = 0, subtract |-> FALSE,
                       half_carry |-> BitAnd(X.cpu.registers.a, 15) + BitAnd(rhs, 15) > 15,
                       carry |-> did_overflow]]

add_hl(X, rhs) ==
    LET hl == get_hl(X.cpu.registers) IN
    [X EXCEPT !.cpu.registers = set_hl([@ EXCEPT
                  !.f.subtract = FALSE,
                  !.f.half_carry = BitAnd(hl, 4095) + BitAnd(rhs, 4095) > 4095,
                  !.f.carry = hl + rhs > 65535],
              (hl + rhs) % 65536)]

add_sp(X, e8) ==
    LET rhs == SignExtend(e8)
        sp == X.cpu.registers.sp
    IN  [X EXCEPT !.cpu.registers.f.half_carry = BitAnd(sp, 15) + BitAnd(rhs, 15) > 15,
                  !.cpu.registers.f.carry = BitAnd(sp, 255) + BitAnd(rhs, 255) > 255,
                  !.cpu.registers.sp = (sp + rhs) % 65536]

and(X, rhs) ==
    [X EXCEPT !.cpu.registers.a = BitAnd(@, rhs),
              !.cpu.registers.f = [zero |-> BitAnd(X.cpu.registers.a, rhs) = 0,
                                   subtract |-> FALSE, half_carry |-> TRUE, carry |-> FALSE]]

or_a(X, rhs) ==
    [X EXCEPT !.cpu.registers.a = BitOr(@, rhs),
              !.cpu.registers.f = [zero |-> BitOr(X.cpu.registers.a, rhs) = 0,
                                   subtract |-> FALSE, half_carry |-> FALSE, carry |-> FALSE]]

\* zero is set when the tested bit is 1
bit(X, u3, byte) ==
    [X EXCEPT !.cpu.registers.f.zero = BitAnd(byte, 2 ^ u3) # 0,
              !.cpu.registers.f.subtract = FALSE,
              !.cpu.registers.f.half_carry = TRUE]

\* let result = self.registers.a - subtrahend, with its overflow check
cp(X, subtrahend, oc) ==
    After(X, Sub8(X.cpu.registers.a, subtrahend, oc),
          WithFlags(X, [zero |-> Sub8(X.cpu.registers.a, subtrahend, oc).value = 0,
                        subtract |-> TRUE,
                        half_carry |-> BitAnd(X.cpu.registers.a, 15) < BitAnd(subtrahend, 15),
                        carry |-> subtrahend > X.cpu.registers.a]))

\* DAA, lower nibble: a + 0x06 is stored and the carry flag cleared
DaaLower(X) ==
    IF BitAnd(X.cpu.registers.a, 15) > 9 \/ X.cpu.registers.f.half_carry
    THEN [X EXCEPT !.cpu.registers.a = (@ + 6) % 256, !.cpu.registers.f.carry = FALSE]
    ELSE X

\* DAA, upper nibble: a is the accumulator the instruction found, so that
\* a + 0x60 replaces what the lower nibble's adjustment stored
DaaUpper(Y, a) ==
    IF BitAnd(a, 240) > 144 \/ Y.cpu.registers.f.carry
    THEN [Y EXCEPT !.cpu.registers.a = (a + 96) % 256, !.cpu.registers.f.carry = TRUE]
    ELSE Y

DaaZero(Y) == [Y EXCEPT !.cpu.registers.f.zero = (Y.cpu.registers.a = 0)]

ExecDAA(X) == DaaZero(DaaUpper(DaaLower(X), X.cpu.registers.a))

ExecCPL(X) ==
    [X EXCEPT !.cpu.registers.a = 255 - @,
              !.cpu.registers.f.subtract = TRUE,
              !.cpu.registers.f.half_carry = TRUE]

\* DEC_R8 and INC_R8: stepped is r8_val - 1 or r8_val + 1
StepR8(X, r8, stepped, subtract) ==
    After(X, stepped,
          [X EXCEPT !.cpu.registers = set_r8([@ EXCEPT
               !.f.zero = stepped.value = 0,
               !.f.subtract = subtract,
               !.f.half_carry = BitAnd(stepped.value, 8) # BitAnd(get_r8(X.cpu.registers, r8), 8)],
            r8, stepped.value)])

\* memory.write(address, value) on a machine that has come this far
StoreAt(Y, address, value) ==
    IF Y.ok THEN Stored(Y, Write(Y.memory, address, value)) ELSE Y

\* DEC_HL_PNTR and INC_HL_PNTR: both set the subtract flag
StepHl(X, hl_val, stepped) ==
    After(X, stepped,
          [WriteHl(X, stepped.value) EXCEPT
               !.cpu.registers.f.zero = stepped.value = 0,
               !.cpu.registers.f.subtract = TRUE,
               !.cpu.registers.f.half_carry = BitAnd(stepped.value, 8) # BitAnd(hl_val, 8)])

StepR16(X, r16, stepped) ==
    After(X, stepped, WithRegs(X, set_r16(X.cpu.registers, r16, stepped.value)))

StepSp(X, stepped) ==
    After(X, stepped, [X EXCEPT !.cpu.registers.sp = stepped.value])

\* self.registers.sp += 1
IncSp(X, oc) == StepSp(X, Add16(X.cpu.registers.sp, 1, oc))

\* self.registers.a = value, for the value r of a read
LoadA(X, r) == After(X, r, [X EXCEPT !.cpu.registers.a = r.value])

LoadR8(X, r8, r) == After(X, r, WithRegs(X, set_r8(X.cpu.registers, r8, r.value)))

SetHl(Y, value) == IF Y.ok THEN WithRegs(Y, set_hl(Y.cpu.registers, value)) ELSE Y

\* (0xFF00..0xFFFF).contains(&n16): the upper end is excluded
InLdhRange(n16) == n16 \in 65280..65534

\* LD_HL_SPE8: value is sp + e8 as i16 as u16; the carry flag comes from
\* (sp & 0xFF) + 0xFF
LdHlSp(X, value) ==
    After(X, value,
          [X EXCEPT !.cpu.registers = set_hl([@ EXCEPT !.f =
               [zero |-> FALSE, subtract |-> FALSE,
                half_carry |-> BitAnd(X.cpu.registers.sp, 15) + BitAnd(value.value, 15) > 15,
                carry |-> BitAnd(X.cpu.registers.sp, 255) + 255 > 255]],
            value.value)])

\* Flags::from(u8) and flags_to_u8
FlagsFrom(value) ==
    [zero |-> BitAnd(value, 128) # 0, subtract |-> BitAnd(value, 64) # 0,
     half_carry |-> BitAnd(value, 32) # 0, carry |-> BitAnd(value, 16) # 0]

flags_to_u8(f) ==
    (IF f.zero THEN 128 ELSE 0) + (IF f.subtract THEN 64 ELSE 0)
    + (IF f.half_carry THEN 32 ELSE 0) + (IF f.carry THEN 16 ELSE 0)

\* memory.read(self.registers.sp)
ReadAtSp(X) == IF X.ok THEN Read(X.memory, X.cpu.registers.sp) ELSE Panic

\* Mutant of PopR8: the stack pointer stays where it was.
PopR8_KeepSp(X, register, oc) ==
    After(X, ReadAtSp(X),
          WithRegs(X, set_r8(X.cpu.registers, register, ReadAtSp(X).value)))

\* one half of POP_R16: the byte at sp into a register, then sp += 1
PopR8(X, register, oc) ==
    After(X, ReadAtSp(X),
          IncSp(WithRegs(X, set_r8(X.cpu.registers, register, ReadAtSp(X).value)), oc))

\* the halves of POP_AF
PopF(X, oc) ==
    After(X, ReadAtSp(X), IncSp(WithFlags(X, FlagsFrom(ReadAtSp(X).value)), oc))

PopA(X, oc) ==
    After(X, ReadAtSp(X),
          IncSp([X EXCEPT !.cpu.registers.a = ReadAtSp(X).value], oc))

NoFlags == [zero |-> FALSE, subtract |-> FALSE, half_carry |-> FALSE, carry |-> FALSE]

\* mask = !(1 << bit)
res_r8(X, bit_index, r8) ==
    WithFlags(WithRegs(X, set_r8(X.cpu.registers, r8,
                                 BitAnd(get_r8(X.cpu.registers, r8), 255 - 2 ^ bit_index))),
              NoFlags)

res_hl(X, bit_index, hl_ref) ==
    After(X, Read(X.memory, hl_ref),
          WithFlags(StoreAt(X, hl_ref,
                            BitAnd(Read(X.memory, hl_ref).value, 255 - 2 ^ bit_index)),
                    NoFlags))

\* mask = 1 << (u3.get() - 1) in an integer of the given width: for u3 = 0 the
\* subtraction overflows, and without overflow checks the shift count 255 is
\* taken modulo the width
SetMask(u3, width, oc) ==
    IF u3 > 0 THEN Returned(2 ^ (u3 - 1))
    ELSE IF oc THEN Panic ELSE Returned(2 ^ (255 % width))

\* SET_U3_R8
SetR8(X, r8, mask) ==
    After(X, mask,
          WithRegs(X, set_r8(X.cpu.registers, r8, BitOr(get_r8(X.cpu.registers, r8), mask.value))))

\* SET_U3_HL_PNTR: the mask goes into the register pair, not into memory
SetHlPair(X, mask) ==
    After(X, mask, WithRegs(X, set_hl(X.cpu.registers, BitOr(get_hl(X.cpu.registers), mask.value))))

\* The shifts and rotates: the byte returned and the carry flag assigned.
\* Each sets carry when the bit shifted out is 0.
rotate_arithmetic_left(value) ==
    [carry |-> BitAnd(value, 128) = 0, value |-> (value * 2) % 256]

rotate_arithmetic_right(value) ==
    [carry |-> BitAnd(value, 1) = 0, value |-> BitOr(value \div 2, BitAnd(value, 128))]

rotate_logical_right(value) ==
    [carry |-> BitAnd(value, 1) = 0, value |-> BitOr(value \div 2, BitAnd(value, 128))]

\* the carry flag is assigned first and then rotated in
rotate_left_through_carry(value) ==
    [carry |-> BitAnd(value, 128) = 0,
     value |-> BitOr((value * 2) % 256, IF BitAnd(value, 128) = 0 THEN 1 ELSE 0)]

rotate_left(value) ==
    [carry |-> BitAnd(value, 128) = 0,
     value |-> BitOr((value * 2) % 256, IF BitAnd(value, 128) = 0 THEN 1 ELSE 0)]

rotate_right_through_carry(value) ==
    [carry |-> BitAnd(value, 1) = 0,
     value |-> BitOr(value \div 2, IF BitAnd(value, 1) = 0 THEN 128 ELSE 0)]

rotate_right(value) ==
    [carry |-> BitAnd(value, 1) = 0,
     value |-> BitOr(value \div 2, IF BitAnd(value, 1) = 0 THEN 128 ELSE 0)]

swap(value) == BitOr(BitAnd(value, 15) * 16, BitAnd(value \div 16, 15))

\* SWAP leaves the carry flag cleared
Swapped(value) == [carry |-> FALSE, value |-> swap(value)]

\* The result res of a shift, rotate or swap stored to r8, with its flags
ResultToR8(X, r8, res) ==
    [X EXCEPT !.cpu.registers = set_r8([@ EXCEPT !.f =
         [zero |-> res.value = 0, subtract |-> FALSE, half_carry |-> FALSE,
          carry |-> res.carry]], r8, res.value)]

\* ... stored to the byte HL points to
ResultToHl(X, res) ==
    WithFlags(WriteHl(X, res.value),
              [zero |-> res.value = 0, subtract |-> FALSE, half_carry |-> FALSE,
               carry |-> res.carry])

\* ... stored to A by RLA, RRA (zero cleared) and RLCA, RRCA (zero computed)
ResultToA(X, res, zero) ==
    [X EXCEPT !.cpu.registers.a = res.value,
              !.cpu.registers.f = [zero |-> zero, subtract |-> FALSE,
                                   half_carry |-> FALSE, carry |-> res.carry]]

\* let c: u8 = if self.registers.f.carry { 1 } else { 0 }
CarryBit(X) == IF X.cpu.registers.f.carry THEN 1 ELSE 0

\* SBC, once subtrahend and a - subtrahend are computed: the zero flag is
\* left alone and the subtract flag cleared
SbcStore(X, subtrahend, difference) ==
    After(X, difference,
          [X EXCEPT !.cpu.registers.a = difference.value,
                    !.cpu.registers.f.subtract = FALSE,
                    !.cpu.registers.f.half_carry =
                        BitAnd(X.cpu.registers.a, 15) < BitAnd(subtrahend, 15),
                    !.cpu.registers.f.carry = X.cpu.registers.a < subtrahend])

\* subtrahend is rhs + c, with its overflow check
Sbc(X, subtrahend, oc) ==
    After(X, subtrahend,
          SbcStore(X, subtrahend.value, Sub8(X.cpu.registers.a, subtrahend.value, oc)))

\* SUB: half_carry compares bit 4 of the operands
SubStore(X, value, difference) ==
    After(X, difference,
          [X EXCEPT !.cpu.registers.a = difference.value,
                    !.cpu.registers.f =
                        [zero |-> difference.value = 0, subtract |-> TRUE,
                         half_carry |-> BitAnd(value, 16) > BitAnd(X.cpu.registers.a, 16),
                         carry |-> value > X.cpu.registers.a]])

Sub(X, value, oc) == SubStore(X, value, Sub8(X.cpu.registers.a, value, oc))

\* The result of an instruction body: the machine, the cycle count, and
\* whether the body left execute with a return statement.
Falls(X, t_cycle) == [X |-> X, t_cycle |-> t_cycle, returned |-> FALSE]

Returns(X, t_cycle) == [X |-> X, t_cycle |-> t_cycle, returned |-> TRUE]

JumpedTo(X, position) == IF position.ok THEN jump(X, position.value) ELSE Crash(X)

\* The arms of the match for the loads (cpu/mod.rs:377-568).
LoadOps ==
    {"LD_R8_R8", "LD_R8_N8", "LD_R16_R16", "LD_HL_PNTR_R8", "LD_HL_PNTR_N8",
     "LD_R8_HL_PNTR", "LD_R16_PNTR_A", "LD_N16_PNTR_A", "LDH_N16_PNTR_A", "LDH_C_PNTR_A",
     "LD_A_R16_PNTR", "LD_A_N16_PNTR", "LDH_A_N16_PNTR", "LDH_A_C_PNTR", "LD_HLI_PNTR_A",
     "LD_HLD_PNTR_A", "LD_A_HLD_PNTR", "LD_A_HLI_PNTR", "LD_SP_N16", "LD_N16_PNTR_SP",
     "LD_HL_SPE8", "LD_SP_HL"}

BodyLoad(X, i, oc) ==
    CASE i.op = "LD_R8_R8" ->
            Falls(WithRegs(X, set_r8(X.cpu.registers, i.dest, get_r8(X.cpu.registers, i.src))), 4)
      [] i.op = "LD_R8_N8" -> Falls(WithRegs(X, set_r8(X.cpu.registers, i.dest, i.n8)), 8)
      [] i.op = "LD_R16_R16" ->
            Falls(WithRegs(X, set_r16(X.cpu.registers, i.dest,
                                      get_r16(X.cpu.registers, i.src))), 12)
      [] i.op = "LD_HL_PNTR_R8" -> Falls(WriteHl(X, get_r8(X.cpu.registers, i.r8)), 8)
      [] i.op = "LD_HL_PNTR_N8" -> Falls(WriteHl(X, i.n8), 12)
      [] i.op = "LD_R8_HL_PNTR" -> Falls(LoadR8(X, i.r8, ReadHl(X)), 8)
      [] i.op = "LD_R16_PNTR_A" ->
            Falls(StoreAt(X, get_r16(X.cpu.registers, i.r16), X.cpu.registers.a), 8)
      [] i.op = "LD_N16_PNTR_A" -> Falls(StoreAt(X, i.n16, X.cpu.registers.a), 16)
      [] i.op = "LDH_N16_PNTR_A" ->
            Falls(IF InLdhRange(i.n16) THEN LoadA(X, Read(X.memory, i.n16)) ELSE X, 12)
      [] i.op = "LDH_C_PNTR_A" ->
            Falls(LoadA(X, Read(X.memory, 65280 + X.cpu.registers.c)), 8)
      [] i.op = "LD_A_R16_PNTR" ->
            Falls(LoadA(X, Read(X.memory, get_r16(X.cpu.registers, i.r16))), 8)
      [] i.op = "LD_A_N16_PNTR" -> Falls(LoadA(X, Read(X.memory, i.n16)), 16)
      [] i.op = "LDH_A_N16_PNTR" ->
            Falls(IF InLdhRange(i.n16) THEN LoadA(X, Read(X.memory, i.n16)) ELSE X, 12)
      [] i.op = "LDH_A_C_PNTR" ->
            Falls(LoadA(X, Read(X.memory, 65280 + X.cpu.registers.c)), 8)
      [] i.op = "LD_HLI_PNTR_A" ->
            Falls(SetHl(WriteHl(X, X.cpu.registers.a),
                        (get_hl(X.cpu.registers) + 1) % 65536), 8)
      [] i.op = "LD_HLD_PNTR_A" ->
            Falls(SetHl(WriteHl(X, X.cpu.registers.a),
                        (get_hl(X.cpu.registers) - 1) % 65536), 8)
      [] i.op = "LD_A_HLD_PNTR" ->
            Falls(SetHl(LoadA(X, ReadHl(X)), (get_hl(X.cpu.registers) - 1) % 65536), 8)
      [] i.op = "LD_A_HLI_PNTR" ->
            Falls(SetHl(LoadA(X, ReadHl(X)), (get_hl(X.cpu.registers) + 1) % 65536), 8)
      [] i.op = "LD_SP_N16" -> Falls([X EXCEPT !.cpu.registers.sp = i.n16], 12)
      [] i.op = "LD_N16_PNTR_SP" ->
            Falls(StoreAt(StoreAt(X, i.n16, BitAnd(X.cpu.registers.sp, 255)),
                          (i.n16 + 1) % 65536, X.cpu.registers.sp \div 256), 20)
      [] i.op = "LD_HL_SPE8" ->
            Falls(LdHlSp(X, Add16(X.cpu.registers.sp, SignExtend(i.e8), oc)), 12)
      [] i.op = "LD_SP_HL" -> Falls([X EXCEPT !.cpu.registers.sp = get_hl(X.cpu.registers)], 8)

\* The arms of the match for the rotates (cpu/mod.rs:695-825), the shifts
\* (902-967) and SWAP (1013-1036).
ShiftOps ==
    {"RL_R8", "RL_HL_PNTR", "RLA", "RLC_R8", "RLC_HL_PNTR", "RLCA",
     "RR_R8", "RR_HL_PNTR", "RRA", "RRC_R8", "RRC_HL_PNTR", "RRCA",
     "SLA_R8", "SLA_HL_PNTR", "SRA_R8", "SRA_HL_PNTR", "SRL_R8", "SRL_HL_PNTR",
     "SWAP_R8", "SWAP_HL_PNTR"}

BodyShift(X, i) ==
    CASE i.op = "RL_R8" ->
            Falls(ResultToR8(X, i.r8, rotate_left_through_carry(get_r8(X.cpu.registers, i.r8))), 8)
      [] i.op = "RL_HL_PNTR" ->
            Falls(After(X, ReadHl(X),
                        ResultToHl(X, rotate_left_through_carry(ReadHl(X).value))), 16)
      [] i.op = "RLA" ->
            Falls(ResultToA(X, rotate_left_through_carry(X.cpu.registers.a), FALSE), 4)
      [] i.op = "RLC_R8" ->
            Falls(ResultToR8(X, i.r8, rotate_left(get_r8(X.cpu.registers, i.r8))), 8)
      [] i.op = "RLC_HL_PNTR" ->
            Falls(After(X, ReadHl(X), ResultToHl(X, rotate_left(ReadHl(X).value))), 16)
      [] i.op = "RLCA" ->
            Falls(ResultToA(X, rotate_left(X.cpu.registers.a),
                            rotate_left(X.cpu.registers.a).value = 0), 4)
      [] i.op = "RR_R8" ->
            Falls(ResultToR8(X, i.r8, rotate_right_through_carry(get_r8(X.cpu.registers, i.r8))), 8)
      [] i.op = "RR_HL_PNTR" ->
            Falls(After(X, ReadHl(X),
                        ResultToHl(X, rotate_right_through_carry(ReadHl(X).value))), 16)
      [] i.op = "RRA" ->
            Falls(ResultToA(X, rotate_right_through_carry(X.cpu.registers.a), FALSE), 4)
      [] i.op = "RRC_R8" ->
            Falls(ResultToR8(X, i.r8, rotate_right(get_r8(X.cpu.registers, i.r8))), 8)
      [] i.op = "RRC_HL_PNTR" ->
            Falls(After(X, ReadHl(X), ResultToHl(X, rotate_right(ReadHl(X).value))), 16)
      [] i.op = "RRCA" ->
            Falls(ResultToA(X, rotate_right(X.cpu.registers.a),
                            rotate_right(X.cpu.registers.a).value = 0), 4)
      [] i.op = "SLA_R8" ->
            Falls(ResultToR8(X, i.r8, rotate_arithmetic_left(get_r8(X.cpu.registers, i.r8))), 8)
      [] i.op = "SLA_HL_PNTR" ->
            Falls(After(X, ReadHl(X),
                        ResultToHl(X, rotate_arithmetic_left(ReadHl(X).value))), 16)
      [] i.op = "SRA_R8" ->
            Falls(ResultToR8(X, i.r8, rotate_arithmetic_right(get_r8(X.cpu.registers, i.r8))), 8)
      [] i.op = "SRA_HL_PNTR" ->
            Falls(After(X, ReadHl(X),
                        ResultToHl(X, rotate_arithmetic_right(ReadHl(X).value))), 16)
      [] i.op = "SRL_R8" ->
            Falls(ResultToR8(X, i.r8, rotate_logical_right(get_r8(X.cpu.registers, i.r8))), 8)
      [] i.op = "SRL_HL_PNTR" ->
            Falls(After(X, ReadHl(X),
                        ResultToHl(X, rotate_logical_right(ReadHl(X).value))), 8)
      [] i.op = "SWAP_R8" ->
            Falls(ResultToR8(X, i.r8, Swapped(get_r8(X.cpu.registers, i.r8))), 8)
      [] i.op = "SWAP_HL_PNTR" ->
            Falls(After(X, ReadHl(X), ResultToHl(X, Swapped(ReadHl(X).value))), 16)

\* The match of execute, an arm for each Instruction variant in the order of
\* the source, with the cycle count the arm evaluates or returns.
Body(X, i, oc) ==
    CASE i.op = "ADC_A_R8" -> Falls(add_a(X, get_r8(X.cpu.registers, i.r8), TRUE), 4)
      [] i.op = "ADC_A_HL_PNTR" ->
            Falls(After(X, ReadHl(X), add_a(X, ReadHl(X).value, TRUE)), 8)
      [] i.op = "ADC_A_N8" -> Falls(add_a(X, i.n8, TRUE), 8)
      [] i.op = "ADD_A_R8" -> Falls(add_a(X, get_r8(X.cpu.registers, i.r8), FALSE), 4)
      [] i.op = "ADD_A_HL_PNTR" ->
            Falls(After(X, ReadHl(X), add_a(X, ReadHl(X).value, FALSE)), 8)
      [] i.op = "ADD_A_N8" -> Falls(add_a(X, i.n8, FALSE), 8)
      [] i.op = "ADD_HL_R16" -> Falls(add_hl(X, get_r16(X.cpu.registers, i.r16)), 8)
      [] i.op = "ADD_HL_SP" -> Falls(add_hl(X, X.cpu.registers.sp), 8)
      [] i.op = "ADD_SP_E8" -> Falls(add_sp(X, i.e8), 16)
      [] i.op = "AND_A_R8" -> Falls(and(X, get_r8(X.cpu.registers, i.r8)), 4)
      [] i.op = "AND_A_HL_PNTR" -> Falls(After(X, ReadHl(X), and(X, ReadHl(X).value)), 8)
      [] i.op = "AND_A_N8" -> Falls(and(X, i.n8), 8)
      [] i.op = "BIT_U3_R8" -> Falls(bit(X, i.u3, get_r8(X.cpu.registers, i.r8)), 8)
      [] i.op = "BIT_U3_HL_PNTR" ->
            Falls(After(X, ReadHl(X), bit(X, i.u3, ReadHl(X).value)), 12)
      [] i.op = "CALL_N16" -> Falls(call(X, i.n16, oc), 24)
      [] i.op = "CALL_CC_N16" ->
            IF check_condition(X.cpu.registers.f, i.condition)
            THEN Returns(call(X, i.n16, oc), 12)
            ELSE Falls(X, 24)
      [] i.op = "CCF" -> Falls([X EXCEPT !.cpu.registers.f.carry = ~@], 4)
      [] i.op = "CP_A_R8" -> Falls(cp(X, get_r8(X.cpu.registers, i.r8), oc), 4)
      [] i.op = "CP_A_HL_PNTR" ->
            Falls(After(X, ReadHl(X), cp(X, ReadHl(X).value, oc)), 8)
      [] i.op = "CP_A_N8" -> Falls(cp(X, i.n8, oc), 8)
      [] i.op = "CPL" -> Falls(ExecCPL(X), 4)
      [] i.op = "DAA" -> Falls(ExecDAA(X), 4)
      [] i.op = "DEC_R8" ->
            Falls(StepR8(X, i.r8, Sub8(get_r8(X.cpu.registers, i.r8), 1, oc), TRUE), 4)
      [] i.op = "DEC_HL_PNTR" ->
            Falls(After(X, ReadHl(X),
                        StepHl(X, ReadHl(X).value, Sub8(ReadHl(X).value, 1, oc))), 12)
      [] i.op = "DEC_R16" ->
            Falls(StepR16(X, i.r16, Sub16(get_r16(X.cpu.registers, i.r16), 1, oc)), 8)
      [] i.op = "DEC_SP" -> Falls(StepSp(X, Sub16(X.cpu.registers.sp, 1, oc)), 8)
      [] i.op = "DI" -> Falls(ExecDI(X), 4)
      [] i.op = "EI" -> Falls(set_ime(X), 4)
      [] i.op = "HALT" -> Falls(ExecHALT(X), 4)
      [] i.op = "INC_R8" ->
            Falls(StepR8(X, i.r8, Add8(get_r8(X.cpu.registers, i.r8), 1, oc), FALSE), 4)
      [] i.op = "INC_HL_PNTR" ->
            Falls(After(X, ReadHl(X),
                        StepHl(X, ReadHl(X).value, Add8(ReadHl(X).value, 1, oc))), 12)
      [] i.op = "INC_R16" ->
            Falls(StepR16(X, i.r16, Add16(get_r16(X.cpu.registers, i.r16), 1, oc)), 8)
      [] i.op = "INC_SP" -> Falls(IncSp(X, oc), 8)
      [] i.op = "JP_N16" -> Falls(jump(X, i.n16), 16)
      [] i.op = "JP_CC_N16" ->
            IF check_condition(X.cpu.registers.f, i.condition)
            THEN Returns(jump(X, i.n16), 16)
            ELSE Falls(X, 12)
      [] i.op = "JP_HL" -> Falls(jump(X, get_hl(X.cpu.registers)), 4)
      [] i.op = "JR_N16" -> Falls(JumpedTo(X, position_from_offset(X, i.offset, oc)), 12)
      [] i.op = "JR_CC_N16" ->
            IF check_condition(X.cpu.registers.f, i.condition)
            THEN Returns(JumpedTo(X, position_from_offset(X, i.offset, oc)), 12)
            ELSE Falls(X, 8)
      [] i.op \in LoadOps -> BodyLoad(X, i, oc)
      [] i.op = "NOP" -> Falls(X, 1)
      [] i.op = "OR_A_R8" -> Falls(or_a(X, get_r8(X.cpu.registers, i.r8)), 4)
      [] i.op = "OR_A_HL_PNTR" -> Falls(After(X, ReadHl(X), or_a(X, ReadHl(X).value)), 8)
      [] i.op = "OR_A_N8" -> Falls(or_a(X, i.n8), 8)
      [] i.op = "POP_AF" -> Falls(PopA(PopF(X, oc), oc), 12)
      [] i.op = "POP_R16" ->
            Falls(PopR8(PopR8(X, get_lower(i.r16), oc), get_upper(i.r16), oc), 12)
      [] i.op = "PUSH_AF" ->
            Falls(PushByte(PushByte(X, X.cpu.registers.a, oc),
                           flags_to_u8(X.cpu.registers.f), oc), 16)
      [] i.op = "PUSH_R16" ->
            Falls(PushByte(PushByte(X, get_r8(X.cpu.registers, get_upper(i.r16)), oc),
                           get_r8(X.cpu.registers, get_lower(i.r16)), oc), 16)
      [] i.op = "RES_U3_R8" -> Falls(res_r8(X, i.u3, i.r8), 2)
      [] i.op = "RES_U3_HL_PNTR" -> Falls(res_hl(X, i.u3, get_hl(X.cpu.registers)), 4)
      [] i.op = "RET" -> Falls(ret(X, oc), 12)
      [] i.op = "RET_CC" ->
            IF check_condition(X.cpu.registers.f, i.condition)
            THEN Returns(ret(X, oc), 20)
            ELSE Falls(X, 8)
      [] i.op = "RETI" -> Falls(ExecRETI(X, oc), 16)
      [] i.op \in ShiftOps -> BodyShift(X, i)
      [] i.op = "RST" -> Falls(call(X, i.vec, oc), 16)
      [] i.op = "SBC_A_R8" ->
            Falls(Sbc(X, Add8(get_r8(X.cpu.registers, i.r8), CarryBit(X), oc), oc), 4)
      [] i.op = "SBC_A_HL_PNTR" ->
            Falls(After(X, ReadHl(X), Sbc(X, Add8(ReadHl(X).value, CarryBit(X), oc), oc)), 8)
      [] i.op = "SBC_A_N8" -> Falls(Sbc(X, Add8(i.n8, CarryBit(X), oc), oc), 8)
      [] i.op = "SCF" ->
            Falls([X EXCEPT !.cpu.registers.f.carry = TRUE,
                            !.cpu.registers.f.subtract = FALSE,
                            !.cpu.registers.f.half_carry = FALSE], 4)
      [] i.op = "SET_U3_R8" -> Falls(SetR8(X, i.r8, SetMask(i.u3, 8, oc)), 8)
      [] i.op = "SET_U3_HL_PNTR" -> Falls(SetHlPair(X, SetMask(i.u3, 16, oc)), 8)
      [] i.op = "STOP" -> Falls(ExecSTOP(X), 4)
      [] i.op = "SUB_A_R8" -> Falls(Sub(X, get_r8(X.cpu.registers, i.r8), oc), 4)
      [] i.op = "SUB_A_HL_PNTR" -> Falls(After(X, ReadHl(X), Sub(X, ReadHl(X).value, oc)), 4)
      [] i.op = "SUB_A_N8" -> Falls(Sub(X, i.n8, oc), 4)
      [] i.op = "XOR_A_R8" -> Falls(ExecXOR(X, get_r8(X.cpu.registers, i.r8)), 4)
      [] i.op = "XOR_A_HL_PNTR" -> Falls(After(X, ReadHl(X), ExecXOR(X, ReadHl(X).value)), 8)
      [] i.op = "XOR_A_N8" -> Falls(ExecXOR(X, i.n8), 8)

\* Mutant of ImeEpilogue: only the completion of a pending enable is handled.
ImeEpilogue_CompletionOnly(ime_state) ==
    IF ime_state = "PENDING_INSTRUCTION_COMPLETION" THEN "SET" ELSE ime_state

ImeEpilogue(ime_state) ==
    IF ime_state = "PENDING_INSTRUCTION_COMPLETION" THEN "SET"
    ELSE IF ime_state = "PENDING_NEW_INSTRUCTION" THEN "PENDING_INSTRUCTION_COMPLETION"
    ELSE ime_state

\* The end of execute: the epilogue runs unless the body returned or panicked.
\* body_ime is the IME state the body left behind.
Finish(b) ==
    [cpu |-> IF b.X.ok /\ ~b.returned
             THEN [b.X.cpu EXCEPT !.ime_state = ImeEpilogue(b.X.cpu.ime_state)]
             ELSE b.X.cpu,
     memory |-> b.X.memory,
     ok |-> b.X.ok,
     t_cycle |-> b.t_cycle,
     epilogue |-> b.X.ok /\ ~b.returned,
     body_ime |-> b.X.cpu.ime_state]

Execute(c, m, i, oc) == Finish(Body(Machine(c, m), i, oc))

(***************************************************************************)
(* The engine from power-on: Cpu::new and Memory::new, then execute called *)
(* with one instruction after another.                                     *)
(***************************************************************************)
\* Operands: a jump target in Work RAM, a stack top in Work RAM, a forward
\* displacement.
JumpTargets == {49443}

StackTops == {53248}

Offsets == {2}

ImeInstrs ==
    {Instr(op) : op \in {"NOP", "DI", "EI", "HALT", "STOP", "CCF", "SCF", "RET", "RETI"}}
    \cup {[Instr("XOR_A_R8") EXCEPT !.r8 = "A"]}
    \cup {[Instr("LD_SP_N16") EXCEPT !.n16 = n] : n \in StackTops}
    \cup {[Instr(op) EXCEPT !.n16 = n] : op \in {"JP_N16", "CALL_N16"}, n \in JumpTargets}
    \cup {[Instr(op) EXCEPT !.condition = cc, !.n16 = n] :
              op \in {"JP_CC_N16", "CALL_CC_N16"}, cc \in Conditions, n \in JumpTargets}
    \cup {[Instr("JR_CC_N16") EXCEPT !.condition = cc, !.offset = e] :
              cc \in Conditions, e \in Offsets}
    \cup {[Instr("RET_CC") EXCEPT !.condition = cc] : cc \in Conditions}

ImeInstructions == {"DI", "EI", "RETI"}

NoInstr ==
    [instr |-> Instr("-"), ok |-> TRUE, ime_before |-> "UNSET", body_ime |-> "UNSET",
     epilogue |-> FALSE, t_cycle |-> 0]

InitIme ==
    /\ \E n \in RomLengths : memory = MemoryNew(n, ZeroArray)
    /\ cpu = CpuNew
    /\ panicked = FALSE
    /\ overflow_checks \in BOOLEAN
    /\ last = NoInstr
    /\ steps = 0
    /\ shadow = ZeroArray
    /\ eiSeq = 0
    /\ sinceDI = "NO"
    /\ header_rom = ZeroArray

Executed(i, e) ==
    /\ cpu' = IF e.ok THEN e.cpu ELSE cpu
    /\ memory' = IF e.ok THEN e.memory ELSE memory
    /\ panicked' = ~e.ok
    /\ last' = [instr |-> i, ok |-> e.ok, ime_before |-> cpu.ime_state,
                body_ime |-> e.body_ime, epilogue |-> e.epilogue,
                t_cycle |-> e.t_cycle]
    /\ eiSeq' = IF ~e.ok THEN 0
                ELSE IF i.op = "EI" /\ cpu.ime_state = "UNSET" THEN 1
                ELSE IF eiSeq \in {1, 2} /\ i.op \notin ImeInstructions THEN eiSeq + 1
                ELSE 0
    /\ sinceDI' = IF ~e.ok THEN sinceDI
                  ELSE IF i.op = "DI" THEN (IF sinceDI = "NO" THEN cpu.ime_state ELSE sinceDI)
                  ELSE IF i.op \in {"EI", "RETI"} THEN "NO"
                  ELSE sinceDI
    /\ UNCHANGED header_rom

ExecuteStep(i) ==
    /\ ~panicked
    /\ steps < MaxSteps
    /\ Executed(i, Execute(cpu, memory, i, overflow_checks))
    /\ steps' = steps + 1
    /\ UNCHANGED <<overflow_checks, shadow>>

NextIme == \E i \in ImeInstrs : ExecuteStep(i)

SpecIme == InitIme /\ [][NextIme]_vars

(***************************************************************************)
(* Claims about the interrupt master enable, checked under SpecIme.        *)
(***************************************************************************)
\* C1 as stated: from IME Unset, in EI; I1; I2 (I1, I2 not DI, EI, RETI) the
\* IME state is PendingInstructionCompletion when I1 has completed and is Set
\* only once I2 has completed.
C1_SetAfterSecond ==
    /\ eiSeq \in {1, 2} => cpu.ime_state # "SET"
    /\ eiSeq = 2 => cpu.ime_state = "PENDING_INSTRUCTION_COMPLETION"
    /\ eiSeq = 3 => cpu.ime_state = "SET"

\* C1 amended: from IME Unset, IME is PendingInstructionCompletion when the EI
\* itself has completed, and it is Set when the first following instruction
\* that runs the end-of-instruction epilogue has completed: I1, unless I1
\* left execute by the return of a conditional JP/JR/CALL/RET whose condition
\* held, and then it is still PendingInstructionCompletion after I1.
C1_SetAfterFirst ==
    /\ eiSeq = 1 => cpu.ime_state = "PENDING_INSTRUCTION_COMPLETION"
    /\ eiSeq = 2 => cpu.ime_state = (IF last.epilogue THEN "SET"
                                     ELSE "PENDING_INSTRUCTION_COMPLETION")
    /\ eiSeq = 3 => cpu.ime_state = (IF last.epilogue \/ last.ime_before = "SET" THEN "SET"
                                     ELSE "PENDING_INSTRUCTION_COMPLETION")

\* C1 witness: EI from Unset, then a NOP, after which IME is already Set.
C1_Witness ==
    eiSeq = 2 /\ last.instr.op = "NOP" /\ last.ok /\ cpu.ime_state = "SET"
    /\ last.ime_before = "PENDING_INSTRUCTION_COMPLETION"

\* C2: the epilogue runs at the end of every execute call: an instruction
\* whose body finished with IME PendingInstructionCompletion returns with IME
\* Set, and one whose body finished with PendingNewInstruction returns with
\* PendingInstructionCompletion.
C2_EpilogueAlways ==
    (last.instr.op # "-" /\ last.ok) =>
        /\ last.body_ime = "PENDING_INSTRUCTION_COMPLETION" => cpu.ime_state = "SET"
        /\ last.body_ime = "PENDING_NEW_INSTRUCTION"
              => cpu.ime_state = "PENDING_INSTRUCTION_COMPLETION"

\* C3: DI executed in any IME state leaves IME Unset, and IME stays Unset over
\* every later instruction until an EI or RETI is executed.
C3_DIUnsets ==
    /\ (last.instr.op = "DI" /\ last.ok) => cpu.ime_state = "UNSET"
    /\ sinceDI # "NO" => cpu.ime_state = "UNSET"

\* C3 witness: a DI that found an enable pending, followed by another instruction.
C3_Witness ==
    /\ sinceDI = "PENDING_INSTRUCTION_COMPLETION"
    /\ last.instr.op \notin {"-", "DI"} /\ last.ok /\ last.epilogue

\* C4: RETI executed in any IME state leaves IME Set when it completes.
C4_RETISets == (last.instr.op = "RETI" /\ last.ok) => cpu.ime_state = "SET"

\* C4 witness: a RETI completed that was executed with IME Unset.
C4_Witness == last.instr.op = "RETI" /\ last.ok /\ last.ime_before = "UNSET"

\* C21: every execute call from a state reached from power-on completes and
\* returns a cycle count, whatever the instruction.
C21_ExecuteTotal == last.instr.op # "-" => last.ok

\* C23: an EI that starts with IME PendingInstructionCompletion (the second EI
\* of EI; EI) does not restart the delay: IME is Set when it completes.
C23_SecondEI ==
    (/\ last.instr.op = "EI" /\ last.ok
     /\ last.ime_before = "PENDING_INSTRUCTION_COMPLETION") =>
        cpu.ime_state = "SET"

\* C28: when an execute call has returned the IME state is Unset,
\* PendingInstructionCompletion or Set, never PendingNewInstruction.
C28_NoPendingNew == cpu.ime_state \in {"UNSET", "PENDING_INSTRUCTION_COMPLETION", "SET"}

\* C28 witness: an EI whose body left PendingNewInstruction has returned.
C28_Witness ==
    /\ last.instr.op = "EI" /\ last.ok
    /\ last.body_ime = "PENDING_NEW_INSTRUCTION"
    /\ cpu.ime_state = "PENDING_INSTRUCTION_COMPLETION"

(***************************************************************************)
(* One execute call in the middle of a program: the processor state, the   *)
(* memory and the instruction of the call are drawn from samples, and      *)
(* every variant of Instruction is among the instructions.                 *)
(***************************************************************************)
\* Operand samples: registers, immediates (0xC8 overflows an addition to
\* 0x9A), both ends of u3, displacements of both signs, an address in Work
\* RAM and one in High RAM.
R8Samples == {"A", "B"}

N8Samples == {1, 200}

U3Samples == {0, 7}

OffsetSamples == {2, -128}

AllInstrs ==
    {Instr(op) :
        op \in {"ADC_A_HL_PNTR", "ADD_A_HL_PNTR", "ADD_HL_SP", "AND_A_HL_PNTR", "CCF",
                "CP_A_HL_PNTR", "CPL", "DAA", "DEC_HL_PNTR", "DEC_SP", "DI", "EI",
                "HALT", "INC_HL_PNTR", "INC_SP", "JP_HL", "LDH_C_PNTR_A",
                "LDH_A_C_PNTR", "LD_HLI_PNTR_A", "LD_HLD_PNTR_A", "LD_A_HLI_PNTR",
                "LD_A_HLD_PNTR", "LD_SP_HL", "NOP", "OR_A_HL_PNTR", "POP_AF",
                "PUSH_AF", "RET", "RETI", "RL_HL_PNTR", "RLA", "RLC_HL_PNTR", "RLCA",
                "RR_HL_PNTR", "RRA", "RRC_HL_PNTR", "RRCA", "SBC_A_HL_PNTR", "SCF",
                "SLA_HL_PNTR", "SRA_HL_PNTR", "SRL_HL_PNTR", "STOP", "SUB_A_HL_PNTR",
                "SWAP_HL_PNTR", "XOR_A_HL_PNTR"}}
    \cup {[Instr(op) EXCEPT !.r8 = r] :
        op \in {"ADC_A_R8", "ADD_A_R8", "AND_A_R8", "CP_A_R8", "DEC_R8", "INC_R8",
                "LD_HL_PNTR_R8", "LD_R8_HL_PNTR", "OR_A_R8", "RL_R8", "RLC_R8",
                "RR_R8", "RRC_R8", "SBC_A_R8", "SLA_R8", "SRA_R8", "SRL_R8",
                "SUB_A_R8", "SWAP_R8", "XOR_A_R8"},
        r \in R8Samples}
    \cup {[Instr(op) EXCEPT !.u3 = u, !.r8 = r] :
        op \in {"BIT_U3_R8", "RES_U3_R8", "SET_U3_R8"}, u \in U3Samples, r \in R8Samples}
    \cup {[Instr(op) EXCEPT !.u3 = u] :
        op \in {"BIT_U3_HL_PNTR", "RES_U3_HL_PNTR", "SET_U3_HL_PNTR"}, u \in U3Samples}
    \cup {[Instr(op) EXCEPT !.n8 = n] :
        op \in {"ADC_A_N8", "ADD_A_N8", "AND_A_N8", "CP_A_N8", "LD_HL_PNTR_N8",
                "OR_A_N8", "SBC_A_N8", "SUB_A_N8", "XOR_A_N8"},
        n \in N8Samples}
    \cup {[Instr(op) EXCEPT !.r16 = r] :
        op \in {"ADD_HL_R16", "DEC_R16", "INC_R16", "LD_R16_PNTR_A", "LD_A_R16_PNTR",
                "POP_R16", "PUSH_R16"},
        r \in R16}
    \cup {[Instr(op) EXCEPT !.n16 = n] :
        op \in {"CALL_N16", "JP_N16", "LD_N16_PNTR_A", "LD_A_N16_PNTR", "LD_SP_N16",
                "LD_N16_PNTR_SP", "LDH_N16_PNTR_A", "LDH_A_N16_PNTR"},
        n \in {49443, 65408}}
    \cup {[Instr(op) EXCEPT !.e8 = e] : op \in {"ADD_SP_E8", "LD_HL_SPE8"}, e \in {2, -2}}
    \cup {[Instr(op) EXCEPT !.condition = cc, !.n16 = n] :
        op \in {"JP_CC_N16", "CALL_CC_N16"}, cc \in Conditions, n \in JumpTargets}
    \cup {[Instr("JR_CC_N16") EXCEPT !.condition = cc, !.offset = e] :
        cc \in Conditions, e \in OffsetSamples}
    \cup {[Instr("JR_N16") EXCEPT !.offset = e] : e \in OffsetSamples}
    \cup {[Instr("RET_CC") EXCEPT !.condition = cc] : cc \in Conditions}
    \cup {[Instr("LD_R8_R8") EXCEPT !.dest = d, !.src = r] : d \in R8Samples, r \in R8Samples}
    \cup {[Instr("LD_R8_N8") EXCEPT !.dest = d, !.n8 = n] : d \in R8Samples, n \in N8Samples}
    \cup {[Instr("LD_R16_R16") EXCEPT !.dest = "BC", !.src = "DE"],
          [Instr("LD_R16_R16") EXCEPT !.dest = "HL", !.src = "BC"]}
    \cup {[Instr("RST") EXCEPT !.vec = v] : v \in Vec}

\* Processor states: accumulators (0x9A needs both adjustments of DAA), flag
\* settings, the stack pointer at power-on and in Work RAM, and the three IME
\* states an execute call can find.
CpuSamples ==
    {[registers |-> [a |-> a, b |-> 1, c |-> 128, d |-> 18, e |-> 52, f |-> f,
                     h |-> 192, l |-> 16, sp |-> sp, pc |-> 291],
      ime_state |-> s, low_power_mode |-> FALSE, very_low_power_mode |-> FALSE] :
        a \in {0, 154, 255}, sp \in {0, 53248},
        s \in {"UNSET", "PENDING_INSTRUCTION_COMPLETION", "SET"},
        f \in
            {NoFlags, [NoFlags EXCEPT !.carry = TRUE],
             [NoFlags EXCEPT !.zero = TRUE, !.half_carry = TRUE],
             [zero |-> TRUE, subtract |-> TRUE, half_carry |-> TRUE, carry |-> TRUE]}}

\* Memories: the empty ROM of main.rs, and a 32 KiB ROM with bytes at 0 and at
\* the program counter, with two bytes on the stack in Work RAM.
MemorySamples ==
    {MemoryNew(0, ZeroArray),
     [MemoryNew(32768, (0 :> 129) @@ (291 :> 52) @@ (292 :> 18))
         EXCEPT !.work_ram = (4096 :> 177) @@ (4097 :> 37)]}

InitExec ==
    /\ memory \in MemorySamples
    /\ cpu \in CpuSamples
    /\ panicked = FALSE
    /\ overflow_checks \in BOOLEAN
    /\ last = NoInstr
    /\ steps = 0
    /\ shadow = [cpu |-> cpu, memory |-> memory]
    /\ eiSeq = 0
    /\ sinceDI = "NO"
    /\ header_rom = ZeroArray

ExecuteOnce(i) ==
    /\ ~panicked
    /\ steps = 0
    /\ Executed(i, Execute(cpu, memory, i, overflow_checks))
    /\ steps' = steps + 1
    /\ UNCHANGED <<overflow_checks, shadow>>

NextExec == \E i \in AllInstrs : ExecuteOnce(i)

SpecExec == InitExec /\ [][NextExec]_vars

(***************************************************************************)
(* Claims about a single execute call, checked under SpecExec.             *)
(***************************************************************************)
\* C5: the body of an instruction other than DI, EI and RETI leaves the IME
\* state alone, and such an instruction executed with IME Unset (Set) leaves
\* it Unset (Set).
C5_OthersKeepIme ==
    (last.instr.op \notin ({"-"} \cup ImeInstructions) /\ last.ok) =>
        /\ last.body_ime = last.ime_before
        /\ last.ime_before \in {"UNSET", "SET"} => cpu.ime_state = last.ime_before

\* C5 witness: a PUSH completed that was executed with IME Set.
C5_Witness ==
    /\ last.instr.op = "PUSH_R16" /\ last.ok
    /\ last.ime_before = "SET" /\ cpu.ime_state = "SET"

\* The address held by the register pair HL.
PairHL(r) == r.h * 256 + r.l

\* The operand byte of instruction i for a call that starts from processor c
\* and memory m: a register, the immediate, or the byte at [HL].
OperandByte(i, c, m) ==
    CASE i.op \in {"ADD_A_R8", "ADC_A_R8", "BIT_U3_R8"} -> get_r8(c.registers, i.r8)
      [] i.op \in {"ADD_A_N8", "ADC_A_N8"} -> i.n8
      [] OTHER -> Read(m, PairHL(c.registers)).value

\* C15: a completed ADD A,x (x a register, the immediate or the byte at [HL])
\* leaves A = (A + x) mod 256, zero iff that is 0, subtract clear, half-carry
\* iff the low nibbles overflow, carry iff A + x > 0xFF.
C15_Add ==
    (last.instr.op \in {"ADD_A_R8", "ADD_A_N8", "ADD_A_HL_PNTR"} /\ last.ok) =>
        LET A == shadow.cpu.registers.a
            x == OperandByte(last.instr, shadow.cpu, shadow.memory)
        IN  /\ cpu.registers.a = (A + x) % 256
            /\ cpu.registers.f.zero = ((A + x) % 256 = 0)
            /\ ~cpu.registers.f.subtract
            /\ cpu.registers.f.half_carry = ((A % 16) + (x % 16) > 15)
            /\ cpu.registers.f.carry = (A + x > 255)

\* C16: a completed ADC A,x started with carry flag c leaves A = (A + x + c)
\* mod 256 and carry iff A + x + c > 0xFF; with the carry flag clear that is
\* the A and the carry of ADD.
C16_Adc ==
    (last.instr.op \in {"ADC_A_R8", "ADC_A_N8", "ADC_A_HL_PNTR"} /\ last.ok) =>
        LET A == shadow.cpu.registers.a
            x == OperandByte(last.instr, shadow.cpu, shadow.memory)
            c == IF shadow.cpu.registers.f.carry THEN 1 ELSE 0
        IN  /\ cpu.registers.a = (A + x + c) % 256
            /\ cpu.registers.f.carry = (A + x + c > 255)

\* C17: a completed BIT u3 on a register or on the byte at [HL] sets zero iff
\* bit u3 of the operand is 0, sets half-carry, clears subtract, and leaves
\* the carry flag and the operand as they were.
C17_Bit ==
    (last.instr.op \in {"BIT_U3_R8", "BIT_U3_HL_PNTR"} /\ last.ok) =>
        LET x == OperandByte(last.instr, shadow.cpu, shadow.memory) IN
            /\ cpu.registers.f.zero = ((x \div (2 ^ last.instr.u3)) % 2 = 0)
            /\ cpu.registers.f.half_carry
            /\ ~cpu.registers.f.subtract
            /\ cpu.registers.f.carry = shadow.cpu.registers.f.carry
            /\ OperandByte(last.instr, cpu, memory) = x

\* C18: CALL n16 and RST vec started with stack pointer S, the stack in
\* writable RAM, and program counter P complete with P >> 8 at S-1, P & 0xFF
\* at S-2, SP = S-2 and PC = the target.
C18_Call ==
    (/\ last.instr.op \in {"CALL_N16", "RST"}
     /\ shadow.cpu.registers.sp - 1 \in WritableRam
     /\ shadow.cpu.registers.sp - 2 \in WritableRam) =>
        /\ last.ok
        /\ Read(memory, shadow.cpu.registers.sp - 1)
              = Returned(shadow.cpu.registers.pc \div 256)
        /\ Read(memory, shadow.cpu.registers.sp - 2)
              = Returned(shadow.cpu.registers.pc % 256)
        /\ cpu.registers.sp = shadow.cpu.registers.sp - 2
        /\ cpu.registers.pc =
              (IF last.instr.op = "RST" THEN last.instr.vec ELSE last.instr.n16)

\* Whether condition cc holds for the flags f.
Holds(cc, f) ==
    CASE cc = "Z" -> f.zero
      [] cc = "NZ" -> ~f.zero
      [] cc = "C" -> f.carry
      [] cc = "NC" -> ~f.carry

\* C20: JP cc,n16 returns 16 cycles with PC = n16 when cc holds and 12 cycles
\* with PC unchanged when it does not; JR cc,e8 returns 12 cycles when cc
\* holds and 8 cycles with PC unchanged when it does not.
C20_CondJumps ==
    /\ last.instr.op = "JP_CC_N16" =>
          /\ last.ok
          /\ IF Holds(last.instr.condition, shadow.cpu.registers.f)
             THEN last.t_cycle = 16 /\ cpu.registers.pc = last.instr.n16
             ELSE last.t_cycle = 12 /\ cpu.registers.pc = shadow.cpu.registers.pc
    /\ last.instr.op = "JR_CC_N16" =>
          /\ last.ok
          /\ IF Holds(last.instr.condition, shadow.cpu.registers.f)
             THEN last.t_cycle = 12
             ELSE last.t_cycle = 8 /\ cpu.registers.pc = shadow.cpu.registers.pc

\* C24: a completed DAA adds 0x06 to A when the low nibble exceeds 9 or
\* half-carry is set, adds 0x60 and sets carry when the high nibble exceeds
\* 0x90 or carry is set, keeps both additions when both apply, and sets zero
\* iff the corrected A is 0.
C24_Daa ==
    (last.instr.op = "DAA" /\ last.ok) =>
        LET a == shadow.cpu.registers.a
            lower == BitAnd(a, 15) > 9 \/ shadow.cpu.registers.f.half_carry
            upper == BitAnd(a, 240) > 144 \/ shadow.cpu.registers.f.carry
            corrected == (a + (IF lower THEN 6 ELSE 0) + (IF upper THEN 96 ELSE 0)) % 256
        IN  /\ cpu.registers.a = corrected
            /\ upper => cpu.registers.f.carry
            /\ cpu.registers.f.zero = (corrected = 0)

\* Bit n of byte x is 1.
BitSet(x, n) == (x \div (2 ^ n)) % 2 = 1

\* The byte a rotate of a register or of the accumulator works on, in
\* processor c.
RotateOperand(i, c) ==
    IF i.op \in {"RLA", "RLCA", "RRA", "RRCA"} THEN c.registers.a
    ELSE get_r8(c.registers, i.r8)

\* C25: a completed rotate of a register or of the accumulator leaves carry =
\* the evicted bit of the operand (bit 7 going left, bit 0 going right); the
\* vacated bit of the result is the old carry for RL/RLA/RR/RRA and the
\* evicted bit for RLC/RLCA/RRC/RRCA.
C25_Rotates ==
    LET x == RotateOperand(last.instr, shadow.cpu)
        y == RotateOperand(last.instr, cpu)
        old == shadow.cpu.registers.f.carry
    IN  /\ (last.instr.op \in {"RL_R8", "RLA"} /\ last.ok) =>
              cpu.registers.f.carry = BitSet(x, 7) /\ BitSet(y, 0) = old
        /\ (last.instr.op \in {"RR_R8", "RRA"} /\ last.ok) =>
              cpu.registers.f.carry = BitSet(x, 0) /\ BitSet(y, 7) = old
        /\ (last.instr.op \in {"RLC_R8", "RLCA"} /\ last.ok) =>
              cpu.registers.f.carry = BitSet(x, 7) /\ BitSet(y, 0) = BitSet(x, 7)
        /\ (last.instr.op \in {"RRC_R8", "RRCA"} /\ last.ok) =>
              cpu.registers.f.carry = BitSet(x, 0) /\ BitSet(y, 7) = BitSet(x, 0)

\* C26: a completed SET u3,r8 sets bit u3 of r8 and leaves its other bits, the
\* other registers and the flags as they were; a completed SET u3,[HL] sets
\* bit u3 of the byte at HL and leaves the HL pair as it was.
C26_Set ==
    /\ (last.instr.op = "SET_U3_R8" /\ last.ok) =>
          cpu.registers =
              set_r8(shadow.cpu.registers, last.instr.r8,
                     BitOr(get_r8(shadow.cpu.registers, last.instr.r8), 2 ^ last.instr.u3))
    /\ (last.instr.op = "SET_U3_HL_PNTR" /\ last.ok) =>
          /\ PairHL(cpu.registers) = PairHL(shadow.cpu.registers)
          /\ Read(memory, PairHL(shadow.cpu.registers)).value =
                 BitOr(Read(shadow.memory, PairHL(shadow.cpu.registers)).value,
                       2 ^ last.instr.u3)

\* C27: a completed LDH [n16],A with n16 in 0xFF00 .. 0xFFFF leaves A at
\* address n16, a completed LDH [C],A leaves A at address 0xFF00 + C, and
\* both leave A as it was.  (The sampled addresses are in High RAM, where a
\* read returns the byte stored.)
C27_LdhStores ==
    /\ (last.instr.op = "LDH_N16_PNTR_A" /\ last.ok /\ last.instr.n16 \in 65280 .. 65535) =>
          /\ Read(memory, last.instr.n16).value = shadow.cpu.registers.a
          /\ cpu.registers.a = shadow.cpu.registers.a
    /\ (last.instr.op = "LDH_C_PNTR_A" /\ last.ok) =>
          /\ Read(memory, 65280 + shadow.cpu.registers.c).value = shadow.cpu.registers.a
          /\ cpu.registers.a = shadow.cpu.registers.a

\* C29: the cycle count a completed execute call returns is a positive
\* multiple of 4.
C29_CyclesMultipleOf4 ==
    (last.instr.op # "-" /\ last.ok) => (last.t_cycle > 0 /\ last.t_cycle % 4 = 0)

(***************************************************************************)
(* Subroutine calls and the stack: up to MaxCalls execute calls of CALL,   *)
(* RST, RET, NOP, PUSH r16 and POP r16, one after another, from a processor *)
(* with a sampled program counter and stack pointer and distinct bytes in   *)
(* B, C, D, E, H and L.  shadow keeps the processor and memory the latest    *)
(* call started from, the record of the call before it, and the processor  *)
(* that one started from.                                                  *)
(***************************************************************************)
MaxCalls == 2

\* Program counters: power-on, in ROM, in Work RAM, the last address.
PcSamples == {0, 291, 49443, 65535}

CallInstrs ==
    {Instr("RET"), Instr("NOP"), [Instr("RST") EXCEPT !.vec = 8]}
    \cup {[Instr("CALL_N16") EXCEPT !.n16 = n] : n \in {291, 49443}}
    \cup {[Instr(op) EXCEPT !.r16 = r] : op \in {"PUSH_R16", "POP_R16"}, r \in {"BC", "DE", "HL"}}

InitCall ==
    /\ memory \in MemorySamples
    /\ \E p \in PcSamples, s \in {0, 53248} :
          cpu = [CpuNew EXCEPT !.registers.pc = p, !.registers.sp = s,
                               !.registers.b = 1, !.registers.c = 128,
                               !.registers.d = 18, !.registers.e = 52,
                               !.registers.h = 192, !.registers.l = 16]
    /\ panicked = FALSE
    /\ overflow_checks \in BOOLEAN
    /\ last = NoInstr
    /\ steps = 0
    /\ shadow = [cpu |-> cpu, memory |-> memory, last |-> NoInstr, older |-> cpu]
    /\ eiSeq = 0
    /\ sinceDI = "NO"
    /\ header_rom = ZeroArray

ExecuteTraced(i) ==
    /\ ~panicked
    /\ steps < MaxCalls
    /\ Executed(i, Execute(cpu, memory, i, overflow_checks))
    /\ steps' = steps + 1
    /\ shadow' = [cpu |-> cpu, memory |-> memory, last |-> last, older |-> shadow.cpu]
    /\ UNCHANGED overflow_checks

NextCall == \E i \in CallInstrs : ExecuteTraced(i)

SpecCall == InitCall /\ [][NextCall]_vars

(***************************************************************************)
(* Claims about subroutine calls, checked under SpecCall.                  *)
(***************************************************************************)
\* C19: a completed RET leaves PC = the 16-bit value at the stack pointer it
\* started with (low byte at SP, high byte at SP+1, both readable) and SP two
\* higher; a RET right after a CALL n16 with the stack in writable RAM leaves
\* PC and SP as they were before the CALL.
C19_RetPops ==
    /\ (/\ last.instr.op = "RET" /\ last.ok
        /\ Read(shadow.memory, shadow.cpu.registers.sp).ok
        /\ Read(shadow.memory, (shadow.cpu.registers.sp + 1) % 65536).ok) =>
          /\ cpu.registers.pc =
                Read(shadow.memory, shadow.cpu.registers.sp).value
                + 256 * Read(shadow.memory, (shadow.cpu.registers.sp + 1) % 65536).value
          /\ cpu.registers.sp = (shadow.cpu.registers.sp + 2) % 65536
    /\ (/\ last.instr.op = "RET" /\ last.ok
        /\ shadow.last.instr.op = "CALL_N16"
        /\ shadow.older.registers.sp - 1 \in WritableRam
        /\ shadow.older.registers.sp - 2 \in WritableRam) =>
          /\ cpu.registers.pc = shadow.older.registers.pc
          /\ cpu.registers.sp = shadow.older.registers.sp

\* The 16-bit value of pair r16 in registers r.
PairValue(r, r16) ==
    CASE r16 = "BC" -> r.b * 256 + r.c
      [] r16 = "DE" -> r.d * 256 + r.e
      [] r16 = "HL" -> r.h * 256 + r.l

MaxIoSteps == 4

\* Register writes: two select patterns for the joypad, a divider write,
\* counters next to the wrap, moduli, and every period enabled and disabled.
IoWrites ==
    {<<65280, 165>>, <<65280, 60>>, <<65284, 90>>, <<65285, 254>>, <<65285, 255>>,
     <<65286, 254>>, <<65286, 16>>, <<65287, 4>>, <<65287, 5>>, <<65287, 6>>,
     <<65287, 7>>, <<65287, 1>>}

\* Cycle counts: 4 and 252 add up to one divider period, 1024 is 64 counter
\* periods of 16 cycles and one of 1024.
TickSamples == {4, 32, 252, 256, 1024}

NoIo ==
    [op |-> "new", addr |-> 0, byte |-> 0, ticks |-> 0, interrupt |-> FALSE,
     before |-> TimersNew]

InitIo ==
    /\ memory = MemoryNew(0, ZeroArray)
    /\ cpu = CpuNew
    /\ panicked = FALSE
    /\ overflow_checks = TRUE
    /\ last = NoIo
    /\ steps = 0
    /\ shadow = ZeroArray
    /\ eiSeq = 0
    /\ sinceDI = "NO"
    /\ header_rom = ZeroArray

IoWritten(address, byte, w) ==
    /\ memory' = w.memory
    /\ panicked' = ~w.ok
    /\ last' = [op |-> "write", addr |-> address, byte |-> byte, ticks |-> 0,
                interrupt |-> FALSE, before |-> memory.timers]

IoWrite(address, byte) ==
    /\ ~panicked
    /\ steps < MaxIoSteps
    /\ IoWritten(address, byte, Write(memory, address, byte))
    /\ steps' = steps + 1
    /\ UNCHANGED <<cpu, overflow_checks, shadow, eiSeq, sinceDI, header_rom>>

Ticked(ticks, r) ==
    /\ memory' = [memory EXCEPT !.timers = r.timers]
    /\ last' = [op |-> "tick", addr |-> 0, byte |-> 0, ticks |-> ticks,
                interrupt |-> r.interrupt, before |-> memory.timers]

TimerTick(ticks) ==
    /\ ~panicked
    /\ steps < MaxIoSteps
    /\ Ticked(ticks, tick(memory.timers, ticks))
    /\ steps' = steps + 1
    /\ UNCHANGED <<cpu, panicked, overflow_checks, shadow, eiSeq, sinceDI, header_rom>>

NextIo ==
    \/ \E w \in IoWrites : IoWrite(w[1], w[2])
    \/ \E ticks \in TickSamples : TimerTick(ticks)

SpecIo == InitIo /\ [][NextIo]_vars

(***************************************************************************)
(* Claims about the timers and the joypad, checked under SpecIo.           *)
(***************************************************************************)
\* The counter after n increments from c with modulo m: it counts up to 0xFF,
\* and from the first wrap on it runs through m..0xFF.
CounterAfter(c, m, n) ==
    IF n < 256 - c THEN c + n ELSE m + ((n - (256 - c)) % (256 - m))

TimerEnabled(t) == (t.timer_control \div 4) % 2 = 1

PeriodOf(t) ==
    CASE t.timer_control % 4 = 0 -> 1024
      [] t.timer_control % 4 = 1 -> 16
      [] t.timer_control % 4 = 2 -> 64
      [] t.timer_control % 4 = 3 -> 256

\* C11: a tick of an enabled timer increments the counter once per period of
\* accumulated cycles and keeps the remainder; the counter reloads from the
\* modulo on a wrap, and the tick reports a request exactly when a wrap
\* happened during the call.
C11_TimerCounts ==
    (last.op = "tick" /\ TimerEnabled(last.before)) =>
        /\ memory.timers.timer_counter =
              CounterAfter(last.before.timer_counter, last.before.timer_modulo,
                           (last.before.internal_timer + last.ticks) \div PeriodOf(last.before))
        /\ memory.timers.internal_timer =
              (last.before.internal_timer + last.ticks) % PeriodOf(last.before)
        /\ last.interrupt =
              ((last.before.internal_timer + last.ticks) \div PeriodOf(last.before)
                  >= 256 - last.before.timer_counter)

\* C11 witness: control 0b101, modulo 0xFE, counter 0xFE, tick(32): the
\* counter is 0xFE again and the tick reported a request.
C11_Witness ==
    /\ last.op = "tick" /\ last.ticks = 32 /\ last.interrupt
    /\ last.before.timer_control = 5 /\ last.before.timer_modulo = 254
    /\ last.before.timer_counter = 254
    /\ memory.timers.timer_counter = 254

\* C12: a tick advances the divider byte by one, modulo 256, for every 256
\* accumulated cycles, enabled or not, and a tick of a disabled timer reports
\* no request.
C12_DividerCounts ==
    last.op = "tick" =>
        /\ Read(memory, 65284) =
              Returned((last.before.divider
                        + (last.before.internal_divider + last.ticks) \div 256) % 256)
        /\ ~TimerEnabled(last.before) => ~last.interrupt

\* C13: a write to 0xFF04 zeroes the divider's accumulator and leaves the
\* counter, its accumulator, the modulo and the control byte as they were.
C13_ResetDiv ==
    (last.op = "write" /\ last.addr = 65284) =>
        /\ memory.timers.internal_divider = 0
        /\ memory.timers.timer_counter = last.before.timer_counter
        /\ memory.timers.internal_timer = last.before.internal_timer
        /\ memory.timers.timer_modulo = last.before.timer_modulo
        /\ memory.timers.timer_control = last.before.timer_control

\* C14: a read of 0xFF00 returns a byte whose low nibble is 0xF in every
\* state, and after a write of b to 0xFF00 it returns (b AND 0xF0) OR 0x0F.
C14_Joypad ==
    /\ Read(memory, 65280).ok
    /\ Read(memory, 65280).value % 16 = 15
    /\ (last.op = "write" /\ last.addr = 65280) =>
          Read(memory, 65280) = Returned((last.byte \div 16) * 16 + 15)

\* C14 witness: 0xA5 was written to 0xFF00 and 0xAF is read there.
C14_Witness ==
    /\ last.op = "write" /\ last.addr = 65280 /\ last.byte = 165
    /\ Read(memory, 65280) = Returned(175)

(***************************************************************************)
(* cartridge/header.rs: parsing the cartridge header.  rom is the image as *)
(* a sparse array over 0 .. 0x14F.                                         *)
(***************************************************************************)
RECURSIVE ChecksumLoop(_, _, _)
ChecksumLoop(rom, byte, sum) ==
    IF byte >= 333 THEN sum
    ELSE ChecksumLoop(rom, byte + 1,
                      (((sum - ArrayGet(rom, byte)) % 65536) - 1) % 65536)

checksum(rom) == ChecksumLoop(rom, 308, 0)

\* <[T]>::copy_from_slice panics unless both slices have the same length.
copy_from_slice(dst_len, from, to) == dst_len = to - from

Slice(rom, from, to) == [k \in 1 .. (to - from) |-> ArrayGet(rom, from + k - 1)]

CartridgeTypeOf ==
    (0 :> "ROMOnly") @@ (1 :> "MBC1") @@ (2 :> "MBC1RAM") @@ (3 :> "MBC1RAMBattery")
    @@ (5 :> "MBC2") @@ (6 :> "MBC2Battery") @@ (8 :> "ROMRAM") @@ (9 :> "ROMRAMBattery")
    @@ (11 :> "MMM01") @@ (12 :> "MMM01RAM") @@ (13 :> "MMM01RAMBattery")
    @@ (15 :> "MBC3TimerBattery") @@ (16 :> "MBC3TimerRAMBattery") @@ (17 :> "MBC3")
    @@ (18 :> "MBC3RAM") @@ (19 :> "MBC3RAMBattery") @@ (25 :> "MBC5") @@ (26 :> "MBC5RAM")
    @@ (27 :> "MBC5RAMBattery") @@ (28 :> "MBC5Rumble") @@ (29 :> "MBC5RumbleRAM")
    @@ (30 :> "MBC5RumbleRAMBattery") @@ (32 :> "MBC6")
    @@ (34 :> "MBC7SensorRumbleRAMBattery") @@ (252 :> "PocketCamera")
    @@ (253 :> "BandaiTAMA5") @@ (254 :> "HuC3") @@ (255 :> "HuC1RAMBattery")

NumRomBanksOf ==
    (0 :> 2) @@ (1 :> 4) @@ (2 :> 8) @@ (3 :> 16) @@ (4 :> 32) @@ (5 :> 64) @@ (6 :> 128)
    @@ (7 :> 256) @@ (82 :> 72) @@ (83 :> 80) @@ (84 :> 96)

RomSizeOf ==
    (0 :> 32 * 1024) @@ (1 :> 64 * 1024) @@ (2 :> 128 * 1024) @@ (3 :> 256 * 1024)
    @@ (4 :> 512 * 1024) @@ (5 :> 1024 * 1024) @@ (6 :> 2048 * 1024) @@ (7 :> 4096 * 1024)
    @@ (82 :> 1152 * 1024) @@ (83 :> 1280 * 1024) @@ (84 :> 1536 * 1024)

RamSizeOf ==
    (0 :> 0) @@ (2 :> 8 * 1024) @@ (3 :> 32 * 1024) @@ (4 :> 128 * 1024) @@ (5 :> 64 * 1024)

DestinationCodeOf == (0 :> "Japanese") @@ (1 :> "Overseas")

NoHeader == [cartridge_type |-> "-"]

HeaderPanic == [ok |-> FALSE, header |-> NoHeader]

header_new(rom) ==
    IF ArrayGet(rom, 333) # checksum(rom) % 256 THEN HeaderPanic
    ELSE IF ~copy_from_slice(16, 308, 323) THEN HeaderPanic
    ELSE IF ~copy_from_slice(4, 319, 322) THEN HeaderPanic
    ELSE IF ArrayGet(rom, 327) \notin DOMAIN CartridgeTypeOf THEN HeaderPanic
    ELSE IF ArrayGet(rom, 328) \notin DOMAIN RomSizeOf THEN HeaderPanic
    ELSE IF ArrayGet(rom, 328) \notin DOMAIN NumRomBanksOf THEN HeaderPanic
    ELSE IF ArrayGet(rom, 329) \notin DOMAIN RamSizeOf THEN HeaderPanic
    ELSE IF ArrayGet(rom, 330) \notin DOMAIN DestinationCodeOf THEN HeaderPanic
    ELSE [ok |-> TRUE,
          header |-> [title |-> Slice(rom, 308, 323),
                      manufacturer_code |-> Slice(rom, 319, 322),
                      licensee |-> "None",
                      cgb |-> ArrayGet(rom, 323) \in {128, 192},
                      sgb |-> ArrayGet(rom, 326) = 3,
                      cartridge_type |-> CartridgeTypeOf[ArrayGet(rom, 327)],
                      rom_size |-> RomSizeOf[ArrayGet(rom, 328)],
                      num_rom_banks |-> NumRomBanksOf[ArrayGet(rom, 328)],
                      ram_size |-> RamSizeOf[ArrayGet(rom, 329)],
                      destination_code |-> DestinationCodeOf[ArrayGet(rom, 330)],
                      version_number |-> ArrayGet(rom, 332)]]

(***************************************************************************)
(* SpecHeader: one call of header::new on an image whose title, CGB flag,  *)
(* type, size and destination bytes are drawn from samples and whose       *)
(* checksum byte is right, off by one, or zero.                            *)
(***************************************************************************)
HeaderFields ==
    [title0 : {0, 65}, cgb : {0, 128}, cartridge_type : {0, 1, 4},
     rom_size : {0, 82, 8}, ram_size : {0, 1}, destination_code : {0, 1, 2}]

ImageOf(f) ==
    ArrayPut(ArrayPut(ArrayPut(ArrayPut(ArrayPut(ArrayPut(ZeroArray,
        308, f.title0), 323, f.cgb), 327, f.cartridge_type), 328, f.rom_size),
        329, f.ram_size), 330, f.destination_code)

WithChecksum(rom, delta) == ArrayPut(rom, 333, (checksum(rom) + delta) % 256)

NoHeaderCall == [op |-> "-", ok |-> TRUE, header |-> NoHeader]

InitHeader ==
    /\ memory = MemoryNew(0, ZeroArray)
    /\ cpu = CpuNew
    /\ panicked = FALSE
    /\ overflow_checks \in BOOLEAN
    /\ last = NoHeaderCall
    /\ steps = 0
    /\ shadow = ZeroArray
    /\ eiSeq = 0
    /\ sinceDI = "NO"
    /\ \E f \in HeaderFields, delta \in {0, 1, 128} : header_rom = WithChecksum(ImageOf(f), delta)

HeaderNew ==
    /\ steps = 0
    /\ last' = [op |-> "header_new", ok |-> header_new(header_rom).ok,
                header |-> header_new(header_rom).header]
    /\ panicked' = ~header_new(header_rom).ok
    /\ steps' = 1
    /\ UNCHANGED <<memory, cpu, overflow_checks, shadow, eiSeq, sinceDI, header_rom>>

NextHeader == HeaderNew

SpecHeader == InitHeader /\ [][NextHeader]_vars

Recognized(rom) ==
    /\ ArrayGet(rom, 327) \in DOMAIN CartridgeTypeOf
    /\ ArrayGet(rom, 328) \in DOMAIN RomSizeOf
    /\ ArrayGet(rom, 329) \in DOMAIN RamSizeOf
    /\ ArrayGet(rom, 330) \in DOMAIN DestinationCodeOf

\* C22: on an image with recognized type, ROM-size, RAM-size and destination
\* bytes, header::new returns a header exactly when byte 0x14D equals the low
\* 8 bits of the checksum over 0x134 .. 0x14C, and a returned header of an
\* image with type byte 0 has cartridge type ROMOnly.
C22_HeaderIffChecksum ==
    (last.op = "header_new" /\ Recognized(header_rom)) =>
        /\ last.ok <=> ArrayGet(header_rom, 333) = checksum(header_rom) % 256
        /\ (last.ok /\ ArrayGet(header_rom, 327) = 0) => last.header.cartridge_type = "ROMOnly"

====
